---------------------------- MODULE Spec2Model ----------------------------
(***************************************************************************)
(* Schedule extraction and normalization engine of generate_posts.py.      *)
(*                                                                         *)
(* A Python str is a sequence of characters; a character is a one-element  *)
(* TLA+ string.  ASCII characters stand for themselves, every other        *)
(* character is written by its code point ("U7BC0" is U+7BC0).             *)
(***************************************************************************)
EXTENDS Integers, Sequences, FiniteSets, TLC

VARIABLES
    lines,               \* iter_non_empty_paragraphs: the paragraph texts
    url_targets,         \* iter_non_empty_paragraphs: hyperlink target or None
    default_year,        \* date.today().year
    call,                \* the function the caller invoked
    pc,                  \* position of the running call
    idx,                 \* extract_post_entries: loop index (1-based)
    in_program_section,  \* extract_post_entries: section flag
    block_starts,        \* extract_post_entries_from_blocks: index-line indices
    pos,                 \* extract_post_entries_from_blocks: block loop index
    entries,             \* the list of entries built so far
    reads,               \* per entry, the line indices its fields were read from
    arg,                 \* arguments of the call other than the document
    ret,                 \* results of the calls made on arg, in call order
    files,               \* output_dir: file name |-> when it was last written
    output_paths         \* generate_docs: the paths written by this call

vars == <<lines, url_targets, default_year, call, pc, idx, in_program_section,
          block_starts, pos, entries, reads, arg, ret, files, output_paths>>

\* None: a value no character sequence equals
None == <<"None">>

\* ------------------------------------------------------------------------
\* Character classes
\* ------------------------------------------------------------------------

LowerLetters ==
    <<"a","b","c","d","e","f","g","h","i","j","k","l","m",
      "n","o","p","q","r","s","t","u","v","w","x","y","z">>

UpperLetters ==
    <<"A","B","C","D","E","F","G","H","I","J","K","L","M",
      "N","O","P","Q","R","S","T","U","V","W","X","Y","Z">>

Range(f) == {f[i] : i \in DOMAIN f}

\* [A-Za-z]
AsciiLetters == Range(LowerLetters) \cup Range(UpperLetters)

\* \d
Digits == {"0","1","2","3","4","5","6","7","8","9"}

\* \s, str.strip(), str.split(): space, tab, ideographic space
Whitespace == {" ", "\t", "U3000"}

\* characters of the modelled alphabet inside U+4E00..U+9FFF
CJKChars ==
    {"U7BC0","U76EE","U5247","U642D","U914D","U53C3","U8003","U8CC7","U6599",
     "U8981","U7528","U7684","U5F71","U7247","U5C0F","U7DE8","U6587","U672C",
     "U5468","U65E5","U5927","U611B","U4E2D","U6A19","U984C","U7532",
     "U91AB","U751F","U9928","U6709","U65B0","U77E5","U8D70","U8D8A","U591A",
     "U6D3B","U4E45","U80A9","U817F","U83E9","U63D0","U4EBA","U9593","U9996",
     "U64AD"}

\* QUOTE_CHARS: " ' U+201C U+201D U+2018 U+2019
QUOTE_CHARS == {"\"", "'", "U201C", "U201D", "U2018", "U2019"}

\* the characters _strip_trailing_filename_punct strips
FilenamePunct ==
    {" ", "\t", "\r", "\n", "U3002", "UFF0E", ".", "UFF1F", "?", "UFF01", "!",
     "UFF1A", ":", ";", "UFF1B", ",", "UFF0C"}

OpenParens == {"(", "UFF08"}
CloseParens == {")", "UFF09"}
Parens == OpenParens \cup CloseParens

IsSpace(c) == c \in Whitespace

\* str.isalnum() of one character
IsAlnum(c) == c \in AsciiLetters \cup Digits \cup CJKChars

\* ------------------------------------------------------------------------
\* str methods
\* ------------------------------------------------------------------------

Min(S) == CHOOSE x \in S : \A y \in S : x <= y
Max(S) == CHOOSE x \in S : \A y \in S : x >= y

Tail_from(s, i) == SubSeq(s, i, Len(s))

\* In the definitions below a value that is used more than once is bound as
\* the parameter of a local operator, so that it is computed once.

\* str.strip()
Strip(s) ==
    LET Cut(keep) ==
            IF keep = {} THEN <<>> ELSE SubSeq(s, Min(keep), Max(keep))
    IN  IF s # <<>> /\ ~IsSpace(s[1]) /\ ~IsSpace(s[Len(s)]) THEN s
        ELSE Cut({i \in DOMAIN s : ~IsSpace(s[i])})

\* str.startswith(prefix)
StartsWith(s, prefix) ==
    /\ Len(s) >= Len(prefix)
    /\ SubSeq(s, 1, Len(prefix)) = prefix

\* str.find(sub) + 1: the first position of sub in s, 0 when absent
Find(s, sub) ==
    LET First(hits) == IF hits = {} THEN 0 ELSE Min(hits)
    IN  First({i \in 1..(Len(s) - Len(sub) + 1) :
                  SubSeq(s, i, i + Len(sub) - 1) = sub})

\* sub in s
Contains(s, sub) == Find(s, sub) # 0

\* str.replace(old, new): non-overlapping occurrences, left to right
RECURSIVE Replace(_, _, _)
Replace(s, old, new) ==
    LET At(i) ==
            IF i = 0 THEN s
            ELSE SubSeq(s, 1, i - 1) \o new
                 \o Replace(Tail_from(s, i + Len(old)), old, new)
    IN  At(Find(s, old))

\* deleting every character of a set (str.replace(c, ""), str.translate)
Delete(s, chars) ==
    LET Kept(c) == c \notin chars
    IN  SelectSeq(s, Kept)

\* replacing every character of a set by new
RECURSIVE MapChars(_, _, _)
MapChars(s, chars, new) ==
    IF s = <<>> THEN <<>>
    ELSE (IF Head(s) \in chars THEN new ELSE <<Head(s)>>)
         \o MapChars(Tail(s), chars, new)

\* str.rstrip(chars)
RStripChars(s, chars) ==
    LET Cut(keep) == IF keep = {} THEN <<>> ELSE SubSeq(s, 1, Max(keep))
    IN  Cut({i \in DOMAIN s : s[i] \notin chars})

\* str.split() of a stripped string: the maximal runs of non-whitespace
RECURSIVE SplitStripped(_)
SplitStripped(t) ==
    LET Cut(sp) ==
            IF sp = {} THEN <<t>>
            ELSE <<SubSeq(t, 1, Min(sp) - 1)>>
                 \o SplitStripped(Strip(Tail_from(t, Min(sp))))
    IN  IF t = <<>> THEN <<>>
        ELSE Cut({i \in DOMAIN t : IsSpace(t[i])})

\* str.split()
SplitWords(s) == SplitStripped(Strip(s))

\* str.upper() / str.lower() of one character
UpperChar(c) ==
    IF c \in Range(LowerLetters)
    THEN UpperLetters[CHOOSE i \in DOMAIN LowerLetters : LowerLetters[i] = c]
    ELSE c

LowerChar(c) ==
    IF c \in Range(UpperLetters)
    THEN LowerLetters[CHOOSE i \in DOMAIN UpperLetters : UpperLetters[i] = c]
    ELSE c

Lower(s) == [i \in DOMAIN s |-> LowerChar(s[i])]

\* "".join(parts) and sep.join(parts)
RECURSIVE Join(_, _)
Join(parts, sep) ==
    IF parts = <<>> THEN <<>>
    ELSE IF Len(parts) = 1 THEN parts[1]
    ELSE parts[1] \o sep \o Join(Tail(parts), sep)

\* ------------------------------------------------------------------------
\* Title Normalizer
\* ------------------------------------------------------------------------

\* [A-Za-z]+/[A-Za-z]+
TagShape(v) ==
    \E k \in 2..(Len(v) - 1) :
        /\ v[k] = "/"
        /\ \A i \in DOMAIN v : i # k => v[i] \in AsciiLetters

\* TRANSLATOR_TAG_RE.sub("", s): the leftmost match of
\* \s*[A-Za-z]+/[A-Za-z]+\s*$ is removed
TRANSLATOR_TAG_RE_sub(s) ==
    LET Cut(starts) ==
            IF starts = {} THEN s ELSE SubSeq(s, 1, Min(starts) - 1)
    IN  Cut({p \in DOMAIN s : TagShape(Strip(Tail_from(s, p)))})

SpacedDash == <<" ", "-", " ">>

normalize_title(title_line) ==
    Delete(Strip(TRANSLATOR_TAG_RE_sub(
               Strip(Replace(title_line, SpacedDash, <<" ">>)))),
           {"/"})

_clean_title_for_display(title_line) ==
    Strip(TRANSLATOR_TAG_RE_sub(title_line))

_strip_quotes(text) == Delete(text, QUOTE_CHARS)

_is_cjk(text) == \E i \in DOMAIN text : text[i] \in CJKChars

\* DASH_SPLIT_RE.split(cleaned, 1) for a string that holds a "-": the parts
\* around the leftmost match of \s*-\s*
DASH_SPLIT_RE_split(cleaned) ==
    LET Parts(d) ==
            LET Around(before, after) ==
                    <<SubSeq(cleaned, 1,
                             (IF before = {} THEN d ELSE Min(before)) - 1),
                      Tail_from(cleaned,
                                IF after = {} THEN Len(cleaned) + 1
                                ELSE Min(after))>>
            IN  Around({i \in 1..(d - 1) :
                           \A j \in i..(d - 1) : IsSpace(cleaned[j])},
                       {i \in (d + 1)..Len(cleaned) : ~IsSpace(cleaned[i])})
    IN  Parts(Find(cleaned, <<"-">>))

\* str.split(sep, 1) for a string that holds sep
SplitOnce(s, sep) ==
    LET At(i) == <<SubSeq(s, 1, i - 1), Tail_from(s, i + Len(sep))>>
    IN  At(Find(s, sep))

\* the trimmed parts around the first hyphen, spaced or not
SplitFirstDash(s) ==
    LET Stripped(parts) == <<Strip(parts[1]), Strip(parts[2])>>
    IN  Stripped(SplitOnce(s, <<"-">>))

\* program, title = cleaned.split(" - ", 1); program.strip(), title.strip()
SplitSpacedDash(s) ==
    LET Stripped(parts) == <<Strip(parts[1]), Strip(parts[2])>>
    IN  Stripped(SplitOnce(s, SpacedDash))

\* the unspaced-hyphen split, whether or not a side is empty
SplitBareDash_empty_sides(cleaned) ==
    LET Choose(left, right) ==
            IF \/ Contains(left, <<" ">>)
               \/ Contains(right, <<" ">>)
               \/ _is_cjk(left)
               \/ _is_cjk(right)
            THEN <<left, right>>
            ELSE <<Strip(cleaned), Strip(cleaned)>>
        Stripped(parts) == Choose(Strip(parts[1]), Strip(parts[2]))
    IN  Stripped(DASH_SPLIT_RE_split(cleaned))

\* the unspaced-hyphen split of _split_program_title
SplitBareDash(cleaned) ==
    LET Choose(left, right) ==
            IF /\ left # <<>>
               /\ right # <<>>
               /\ \/ Contains(left, <<" ">>)
                  \/ Contains(right, <<" ">>)
                  \/ _is_cjk(left)
                  \/ _is_cjk(right)
            THEN <<left, right>>
            ELSE <<Strip(cleaned), Strip(cleaned)>>
        Stripped(parts) == Choose(Strip(parts[1]), Strip(parts[2]))
    IN  Stripped(DASH_SPLIT_RE_split(cleaned))

_split_program_title(title_line) ==
    LET Split(cleaned) ==
            IF Contains(cleaned, SpacedDash) THEN SplitSpacedDash(cleaned)
            ELSE IF Contains(cleaned, <<"-">>) THEN SplitBareDash(cleaned)
            ELSE <<Strip(cleaned), Strip(cleaned)>>
    IN  Split(_clean_title_for_display(title_line))

_strip_trailing_filename_punct(text) == RStripChars(text, FilenamePunct)

\* re.sub(r"\s+", " ", s): every whitespace run becomes one space
RECURSIVE CollapseWhitespace(_)
CollapseWhitespace(s) ==
    LET Skip(rest) ==
            <<" ">> \o (IF rest = {} THEN <<>>
                        ELSE CollapseWhitespace(Tail_from(s, Min(rest))))
    IN  IF s = <<>> THEN <<>>
        ELSE IF IsSpace(Head(s))
        THEN Skip({i \in DOMAIN s : ~IsSpace(s[i])})
        ELSE <<Head(s)>> \o CollapseWhitespace(Tail(s))

\* the cleaning with "/" turned into a space, as "|" is
_clean_filename_component_spaced(text) ==
    _strip_trailing_filename_punct(
        Strip(CollapseWhitespace(
            MapChars(Strip(TRANSLATOR_TAG_RE_sub(text)), {"/", "|"}, <<" ">>))))

_clean_filename_component(text) ==
    _strip_trailing_filename_punct(
        Strip(CollapseWhitespace(
            MapChars(Delete(Strip(TRANSLATOR_TAG_RE_sub(text)), {"/"}),
                     {"|"}, <<" ">>))))

\* the position in s (which starts with an opening parenthesis) of the
\* closing parenthesis of a group "(" non-parens+ ")", or 0
GroupEnd(s) ==
    LET Close(ps) ==
            IF ps # {} /\ Min(ps) > 2 /\ s[Min(ps)] \in CloseParens
            THEN Min(ps) ELSE 0
    IN  Close({i \in 2..Len(s) : s[i] \in Parens})

\* PAREN_TITLE_RE.findall(s): the contents of the groups "(" non-parens+ ")"
RECURSIVE PAREN_TITLE_RE_findall(_)
PAREN_TITLE_RE_findall(s) ==
    LET Group(close) ==
            IF close # 0
            THEN <<SubSeq(s, 2, close - 1)>>
                 \o PAREN_TITLE_RE_findall(Tail_from(s, close + 1))
            ELSE PAREN_TITLE_RE_findall(Tail(s))
    IN  IF s = <<>> THEN <<>>
        ELSE IF Head(s) \notin OpenParens THEN PAREN_TITLE_RE_findall(Tail(s))
        ELSE Group(GroupEnd(s))

\* re.sub(PAREN_TITLE_RE, "", s)
RECURSIVE PAREN_TITLE_RE_remove(_)
PAREN_TITLE_RE_remove(s) ==
    LET Group(close) ==
            IF close # 0
            THEN PAREN_TITLE_RE_remove(Tail_from(s, close + 1))
            ELSE <<Head(s)>> \o PAREN_TITLE_RE_remove(Tail(s))
    IN  IF s = <<>> THEN <<>>
        ELSE IF Head(s) \notin OpenParens
        THEN <<Head(s)>> \o PAREN_TITLE_RE_remove(Tail(s))
        ELSE Group(GroupEnd(s))

\* the first group that holds a CJK character, not the last
cjk_parenthetical_first(matches) ==
    LET First(hits) == IF hits = {} THEN None ELSE Strip(matches[Min(hits)])
    IN  First({i \in DOMAIN matches : _is_cjk(matches[i])})

\* the last group, if it holds a CJK character
cjk_parenthetical_of_last_group(matches) ==
    IF matches # <<>> /\ _is_cjk(matches[Len(matches)])
    THEN Strip(matches[Len(matches)])
    ELSE None

\* for inner in reversed(matches): if _is_cjk(inner): ... inner.strip()
\* None when no group holds a CJK character
cjk_parenthetical(matches) ==
    LET Last(hits) == IF hits = {} THEN None ELSE Strip(matches[Max(hits)])
    IN  Last({i \in DOMAIN matches : _is_cjk(matches[i])})

\* x or y, for x a string or None
OrElse(x, y) == IF x # None /\ x # <<>> THEN x ELSE y

\* program, a space and episode, whatever they are
filename_title_joined(program, episode) == program \o <<" ">> \o episode

\* the tail of build_filename_title_from_title_line, from the cleaned
\* program and episode
filename_title_of(program, episode) ==
    IF program # <<>> /\ episode # <<>> /\ program # episode
    THEN Strip(program \o <<" ">> \o episode)
    ELSE Strip(IF program # <<>> THEN program ELSE episode)

build_filename_title_from_title_line(title_line) ==
    LET Cleaned(split) ==
            filename_title_of(_clean_filename_component(split[1]),
                              _clean_filename_component(split[2]))
        From(source) ==
            Cleaned(IF Contains(source, SpacedDash)
                    THEN SplitSpacedDash(source)
                    ELSE _split_program_title(source))
    IN  From(OrElse(cjk_parenthetical(PAREN_TITLE_RE_findall(title_line)),
                    _clean_title_for_display(title_line)))

_strip_parenthetical(text) == Strip(PAREN_TITLE_RE_remove(text))

\* ------------------------------------------------------------------------
\* Hashtag Builder
\* ------------------------------------------------------------------------

\* word[:1].upper() + word[1:]
\* str.capitalize(): the first character upper-cased, the others lower-cased
Capitalize_lower_rest(word) ==
    IF word = <<>> THEN <<>>
    ELSE <<UpperChar(Head(word))>> \o Lower(Tail(word))

Capitalize(word) ==
    IF word = <<>> THEN <<>> ELSE <<UpperChar(Head(word))>> \o Tail(word)

\* "".join(ch for ch in stripped if ch.isalnum() or _is_cjk(ch))
KeepAlnumCJK(stripped) ==
    LET IsKept(c) == IsAlnum(c) \/ c \in CJKChars
    IN  SelectSeq(stripped, IsKept)

\* "".join(ch if ch.isalnum() else " " for ch in stripped).split()
AlnumWords(stripped) ==
    SplitWords([i \in DOMAIN stripped |->
                   IF IsAlnum(stripped[i]) THEN stripped[i] ELSE " "])

_normalize_hashtag(text, pascal_case) ==
    LET Joined(words) ==
            IF pascal_case
            THEN Join([i \in DOMAIN words |-> Capitalize(words[i])], <<>>)
            ELSE Join(words, <<>>)
        Tag(stripped) ==
            IF _is_cjk(stripped) THEN KeepAlnumCJK(stripped)
            ELSE Joined(AlnumWords(stripped))
    IN  Tag(_strip_quotes(text))

\* both tags kept, whatever they are
hashtag_list_unfiltered(program_tag, title_tag) == <<program_tag, title_tag>>

\* the tags list of _build_hashtags: empty tags and a tag equal to the
\* previous kept tag are skipped
hashtag_list(program_tag, title_tag) ==
    IF program_tag = <<>>
    THEN (IF title_tag = <<>> THEN <<>> ELSE <<title_tag>>)
    ELSE IF title_tag = <<>> \/ title_tag = program_tag THEN <<program_tag>>
    ELSE <<program_tag, title_tag>>

\* " ".join(f"#{tag}" for tag in tags)
JoinTags(tags) == Join([i \in DOMAIN tags |-> <<"#">> \o tags[i]], <<" ">>)

_build_hashtags(program, title, pascal_case) ==
    JoinTags(hashtag_list(_normalize_hashtag(program, pascal_case),
                          _normalize_hashtag(title, pascal_case)))

\* the Chinese tags taken from the title without its parentheticals when no
\* group holds a CJK character
build_hashtags_zh_without_groups(title_line) ==
    LET Tags(en, zh) ==
            <<_build_hashtags(en[1], en[2], TRUE),
              _build_hashtags(zh[1], zh[2], FALSE)>>
        From(display) ==
            Tags(_split_program_title(_strip_parenthetical(display)),
                 _split_program_title(
                     OrElse(cjk_parenthetical(PAREN_TITLE_RE_findall(display)),
                            _strip_parenthetical(display))))
    IN  From(_clean_title_for_display(title_line))

build_hashtags_from_title_line(title_line) ==
    LET Tags(en, zh) ==
            <<_build_hashtags(en[1], en[2], TRUE),
              _build_hashtags(zh[1], zh[2], FALSE)>>
        From(display) ==
            Tags(_split_program_title(_strip_parenthetical(display)),
                 _split_program_title(
                     OrElse(cjk_parenthetical(PAREN_TITLE_RE_findall(display)),
                            display)))
    IN  From(_clean_title_for_display(title_line))

\* ------------------------------------------------------------------------
\* Date Prefix Resolver
\* ------------------------------------------------------------------------

DigitValue(c) ==
    CASE c = "0" -> 0 [] c = "1" -> 1 [] c = "2" -> 2 [] c = "3" -> 3
      [] c = "4" -> 4 [] c = "5" -> 5 [] c = "6" -> 6 [] c = "7" -> 7
      [] c = "8" -> 8 [] c = "9" -> 9

DigitChar(n) == <<"0","1","2","3","4","5","6","7","8","9">>[n + 1]

\* int(s) of a digit string
RECURSIVE ToInt(_)
ToInt(s) ==
    IF s = <<>> THEN 0
    ELSE 10 * ToInt(SubSeq(s, 1, Len(s) - 1)) + DigitValue(s[Len(s)])

\* str(n) of n >= 0
RECURSIVE ToStr(_)
ToStr(n) ==
    IF n < 10 THEN <<DigitChar(n)>>
    ELSE ToStr(n \div 10) \o <<DigitChar(n % 10)>>

\* f"{n:02d}" of n >= 0
Format02d(n) == IF n < 10 THEN <<"0">> \o ToStr(n) ELSE ToStr(n)

IsDigits(s) == \A i \in DOMAIN s : s[i] \in Digits

\* s.split("/")
RECURSIVE SplitSlash(_)
SplitSlash(s) ==
    LET At(i) ==
            IF i = 0 THEN <<s>>
            ELSE <<SubSeq(s, 1, i - 1)>> \o SplitSlash(Tail_from(s, i + 1))
    IN  At(Find(s, <<"/">>))

\* YYMD_DATE_RE.match(s): the groups (yy, mm, dd), or None
YYMD_DATE_RE_match(s) ==
    LET Groups(g) ==
            IF /\ Len(g) = 3
               /\ \A i \in 1..3 : IsDigits(g[i])
               /\ Len(g[1]) = 2
               /\ Len(g[2]) \in 1..2
               /\ Len(g[3]) \in 1..2
            THEN g ELSE None
    IN  Groups(SplitSlash(s))

\* MD_DATE_RE.match(s): the groups (mm, dd), or None
MD_DATE_RE_match(s) ==
    LET Groups(g) ==
            IF /\ Len(g) = 2
               /\ \A i \in 1..2 : IsDigits(g[i])
               /\ Len(g[1]) \in 1..2
               /\ Len(g[2]) \in 1..2
            THEN g ELSE None
    IN  Groups(SplitSlash(s))

\* the f-string alone, whatever the month and the day
date_prefix_unchecked(yy, mm, dd) ==
    Format02d(yy) \o Format02d(mm) \o Format02d(dd)

\* the range check and the f-string of _parse_date_prefix
date_prefix_of(yy, mm, dd) ==
    IF ~(1 <= mm /\ mm <= 12 /\ 1 <= dd /\ dd <= 31) THEN None
    ELSE Format02d(yy) \o Format02d(mm) \o Format02d(dd)

\* default_year: int | None is a sequence of at most one integer
_parse_date_prefix(text, year) ==
    LET Parse(m1, m2) ==
            IF m1 # None
            THEN date_prefix_of(ToInt(m1[1]), ToInt(m1[2]), ToInt(m1[3]))
            ELSE IF m2 = None \/ year = <<>> THEN None
            ELSE date_prefix_of(year[1] % 100, ToInt(m2[1]), ToInt(m2[2]))
        Stripped(stripped) ==
            Parse(YYMD_DATE_RE_match(stripped), MD_DATE_RE_match(stripped))
    IN  Stripped(Strip(text))

\* ------------------------------------------------------------------------
\* Line patterns and labels
\* ------------------------------------------------------------------------

\* the number of leading digits of s
LeadingDigits(s) ==
    LET Count(non) == IF non = {} THEN Len(s) ELSE Min(non) - 1
    IN  Count({i \in DOMAIN s : s[i] \notin Digits})

\* PERSON_LINE_RE.match(line): group(1), or None.  ^\d+\.\s*(\S+)
PERSON_LINE_RE_match(line) ==
    LET Token(n, words) ==
            IF n >= 1 /\ Len(line) > n /\ line[n + 1] = "." /\ words # <<>>
            THEN words[1] ELSE None
        After(n) == Token(n, SplitWords(Tail_from(line, n + 2)))
    IN  After(LeadingDigits(line))

\* the presenter token taken as written, its case kept
person_of_cased(line) == Strip(PERSON_LINE_RE_match(line))

\* match.group(1).strip().lower()
person_of(line) == Lower(Strip(PERSON_LINE_RE_match(line)))

alex == <<"a", "l", "e", "x">>

\* PROGRAM_SECTION_RE.match(line): ^U+7BC0 U+76EE .* U+5247
PROGRAM_SECTION_RE_match(line) ==
    /\ StartsWith(line, <<"U7BC0", "U76EE">>)
    /\ \E i \in 3..Len(line) : line[i] = "U5247"

\* STOP_SECTION_RE.match(line):
\* ^(?:-+|FB U+5C0F U+7DE8 U+6587|U+672C U+5468 U+7BC0 U+65E5)
STOP_SECTION_RE_match(line) ==
    \/ StartsWith(line, <<"-">>)
    \/ StartsWith(line, <<"F", "B", "U5C0F", "U7DE8", "U6587">>)
    \/ StartsWith(line, <<"U672C", "U5468", "U7BC0", "U65E5">>)

\* BLOCK_INDEX_RE.match(s): ^\d+\s*$
BLOCK_INDEX_RE_match(s) ==
    LET Rest(n) == n >= 1 /\ \A i \in (n + 1)..Len(s) : IsSpace(s[i])
    IN  Rest(LeadingDigits(s))

http == <<"h", "t", "t", "p">>

\* the "paired" marker of a schedule reference
PairedMarker == <<"U642D", "U914D">>

RefLabelText == <<"U53C3", "U8003", "U8CC7", "U6599">>
VideoLabelText == <<"U8981", "U7528", "U7684", "U5F71", "U7247">>

ALEX_REF_LABELS == {RefLabelText \o <<":">>, RefLabelText \o <<"UFF1A">>}
ALEX_VIDEO_LABELS == {VideoLabelText \o <<":">>, VideoLabelText \o <<"UFF1A">>}

\* ------------------------------------------------------------------------
\* Format Detector
\* ------------------------------------------------------------------------

\* the labels looked for before the section header
_detect_labels_first(ls) ==
    IF /\ \E i \in DOMAIN ls : Strip(ls[i]) \in ALEX_REF_LABELS
       /\ \E i \in DOMAIN ls : Strip(ls[i]) \in ALEX_VIDEO_LABELS
    THEN "blocks"
    ELSE "schedule"

_detect_schedule_format(ls) ==
    IF \E i \in DOMAIN ls : PROGRAM_SECTION_RE_match(ls[i]) THEN "schedule"
    ELSE IF /\ \E i \in DOMAIN ls : Strip(ls[i]) \in ALEX_REF_LABELS
            /\ \E i \in DOMAIN ls : Strip(ls[i]) \in ALEX_VIDEO_LABELS
    THEN "blocks"
    ELSE "schedule"

\* ------------------------------------------------------------------------
\* Schedule-Format Extractor
\* ------------------------------------------------------------------------

\* x.strip() with no test of x
TargetStripped(target) == Strip(target)

\* x.strip() if x else "" for a target that may be None
TargetOrEmpty(target) ==
    IF target = None \/ target = <<>> THEN <<>> ELSE Strip(target)

\* the index at which the loop of _extract_reference leaves: the first line
\* from start on that is a person marker, a stop line or the paired marker;
\* 0 when the loop runs to the end
reference_scan_end(ls, start) ==
    LET First(ends) == IF ends = {} THEN 0 ELSE Min(ends)
    IN  First({j \in start..Len(ls) :
                  \/ PERSON_LINE_RE_match(ls[j]) # None
                  \/ STOP_SECTION_RE_match(ls[j])
                  \/ Strip(ls[j]) = PairedMarker})

\* _extract_reference(lines, url_targets, start_idx); start is 1-based.
\* at is the index of the paired marker the reference was read after, or 0.
_extract_reference(ls, targets, start) ==
    LET At(j) ==
            IF /\ j # 0
               /\ PERSON_LINE_RE_match(ls[j]) = None
               /\ ~STOP_SECTION_RE_match(ls[j])
            THEN [ref_url |-> IF j + 1 <= Len(ls) THEN ls[j + 1] ELSE <<>>,
                  ref_title |-> IF j + 2 <= Len(ls) THEN ls[j + 2] ELSE <<>>,
                  ref_url_target |-> IF j + 1 <= Len(targets)
                                     THEN TargetOrEmpty(targets[j + 1])
                                     ELSE <<>>,
                  at |-> j]
            ELSE [ref_url |-> <<>>, ref_title |-> <<>>,
                  ref_url_target |-> <<>>, at |-> 0]
    IN  At(reference_scan_end(ls, start))

has_url_line_any_text(ls, i) == i + 2 <= Len(ls)

\* url_line.startswith("http") for the line two after the marker at i
has_url_line(ls, i) == i + 2 <= Len(ls) /\ StartsWith(ls[i + 2], http)

\* the entry extract_post_entries appends for an "alex" marker at line i
schedule_entry(ls, targets, i) ==
    LET Entry(title, url_line, target, ref, tags) ==
            [filename_title |-> build_filename_title_from_title_line(ls[i + 1]),
             header_title |-> title,
             header_url |-> url_line,
             header_url_target |-> target,
             video_url |-> url_line,
             video_url_target |-> target,
             video_title |-> title,
             ref_url |-> ref.ref_url,
             ref_url_target |-> ref.ref_url_target,
             ref_title |-> ref.ref_title,
             hashtags_en |-> tags[1],
             hashtags_zh |-> tags[2]]
    IN  Entry(_clean_title_for_display(ls[i + 1]),
              IF has_url_line(ls, i) THEN ls[i + 2] ELSE <<>>,
              IF has_url_line(ls, i) /\ i + 2 <= Len(targets)
                                     /\ targets[i + 2] # None
              THEN targets[i + 2] ELSE <<>>,
              _extract_reference(ls, targets, i + 1),
              build_hashtags_from_title_line(ls[i + 1]))

\* the lines the fields of that entry were read from (0: from no line)
schedule_reads(ls, targets, i) ==
    LET Reads(at) ==
            [marker |-> i,
             video_title |-> i + 1,
             video_url |-> IF has_url_line(ls, i) THEN i + 2 ELSE 0,
             ref_url |-> IF at # 0 /\ at + 1 <= Len(ls) THEN at + 1 ELSE 0,
             ref_title |-> IF at # 0 /\ at + 2 <= Len(ls) THEN {at + 2} ELSE {},
             date |-> 0,
             video_desc_en |-> 0,
             video_desc_zh |-> 0]
    IN  Reads(_extract_reference(ls, targets, i + 1).at)

\* ------------------------------------------------------------------------
\* Blocks-Format Extractor
\* ------------------------------------------------------------------------

\* the elements of a finite set of integers, ascending
RECURSIVE Sorted(_)
Sorted(S) == IF S = {} THEN <<>> ELSE <<Min(S)>> \o Sorted(S \ {Min(S)})

\* block_starts = [i for i, line in enumerate(lines) if BLOCK_INDEX_RE...]
\* (1-based)
index_lines(ls) ==
    Sorted({i \in DOMAIN ls : BLOCK_INDEX_RE_match(Strip(ls[i]))})

\* the locals of one block before its lines are scanned; r holds, per field,
\* the document line it was read from
block_locals ==
    [ref_url |-> <<>>, ref_title |-> <<>>, ref_url_target |-> <<>>,
     date_prefix |-> <<>>, video_url |-> <<>>, video_url_target |-> <<>>,
     video_title |-> <<>>, video_desc_en |-> <<>>, video_desc_zh |-> <<>>,
     r |-> [ref_url |-> 0, ref_title |-> {}, date |-> 0, video_url |-> 0,
            video_title |-> 0, video_desc_en |-> 0, video_desc_zh |-> 0]]

\* end_ref: the first video label after block[k], else len(block)
end_ref_of(block, k) ==
    LET First(vids) == IF vids = {} THEN Len(block) + 1 ELSE Min(vids)
    IN  First({p \in (k + 1)..Len(block) :
                  Strip(block[p]) \in ALEX_VIDEO_LABELS})

\* the label's URL line with its destination written over the displayed text
ref_url_step_resolved(block, block_targets, k, base, st) ==
    IF k + 1 <= Len(block)
    THEN [st EXCEPT !.ref_url = OrElse(TargetOrEmpty(block_targets[k + 1]),
                                       Strip(block[k + 1])),
                    !.ref_url_target = TargetOrEmpty(block_targets[k + 1]),
                    !.r.ref_url = base + k + 1]
    ELSE st

\* ref_url and ref_url_target of the label at block[k]
ref_url_step(block, block_targets, k, base, st) ==
    IF k + 1 <= Len(block)
    THEN [st EXCEPT !.ref_url = Strip(block[k + 1]),
                    !.ref_url_target = TargetOrEmpty(block_targets[k + 1]),
                    !.r.ref_url = base + k + 1]
    ELSE st

\* the date line taken as the date and as the first line of the title too
ref_title_step_keeping_date(block, k, base, end_ref, possible_date, st) ==
    LET Titled(cursor, kept, s2) ==
            IF cursor < end_ref
            THEN [s2 EXCEPT
                     !.ref_title =
                         Join([i \in 1..Cardinality(kept) |->
                                  Strip(block[Sorted(kept)[i]])], <<"\n">>),
                     !.r.ref_title = {base + p : p \in kept}]
            ELSE s2
        From(cursor, s2) ==
            Titled(cursor,
                   {p \in cursor..(end_ref - 1) : Strip(block[p]) # <<>>}, s2)
    IN  IF possible_date # None /\ possible_date # <<>>
        THEN From(k + 2, [st EXCEPT !.date_prefix = possible_date,
                                    !.r.date = base + k + 2])
        ELSE From(k + 2, st)

\* the date and the title lines of the reference label at block[k]
ref_title_step(block, k, base, end_ref, possible_date, st) ==
    LET Titled(cursor, kept, s2) ==
            IF cursor < end_ref
            THEN [s2 EXCEPT
                     !.ref_title =
                         Join([i \in 1..Cardinality(kept) |->
                                  Strip(block[Sorted(kept)[i]])], <<"\n">>),
                     !.r.ref_title = {base + p : p \in kept}]
            ELSE s2
        From(cursor, s2) ==
            Titled(cursor,
                   {p \in cursor..(end_ref - 1) : Strip(block[p]) # <<>>}, s2)
    IN  IF possible_date # None /\ possible_date # <<>>
        THEN From(k + 3, [st EXCEPT !.date_prefix = possible_date,
                                    !.r.date = base + k + 2])
        ELSE From(k + 2, st)

\* the body of "if label in ALEX_REF_LABELS" for the label at block[k];
\* base + k is the document index of block[k]
ref_branch(block, block_targets, k, base, year, st) ==
    ref_title_step(block, k, base, end_ref_of(block, k),
                   IF k + 2 < end_ref_of(block, k)
                   THEN _parse_date_prefix(block[k + 2], <<year>>)
                   ELSE None,
                   ref_url_step(block, block_targets, k, base, st))

\* field = block[k + d].strip() when that line is in the block
video_field(block, k, d, base, field, st) ==
    IF k + d <= Len(block)
    THEN [st EXCEPT ![field] = Strip(block[k + d]),
                    !.r[field] = base + k + d]
    ELSE st

\* the body of "elif label in ALEX_VIDEO_LABELS" for the label at block[k]
video_branch(block, block_targets, k, base, st) ==
    LET Target(s1) ==
            IF k + 1 <= Len(block)
            THEN [s1 EXCEPT !.video_url_target =
                                TargetOrEmpty(block_targets[k + 1])]
            ELSE s1
    IN  video_field(block, k, 4, base, "video_desc_zh",
            video_field(block, k, 3, base, "video_desc_en",
                video_field(block, k, 2, base, "video_title",
                    Target(video_field(block, k, 1, base, "video_url", st)))))

\* for idx, line in enumerate(block): from block[k] on
RECURSIVE scan_block(_, _, _, _, _, _)
scan_block(block, block_targets, k, base, year, st) ==
    IF k > Len(block) THEN st
    ELSE scan_block(block, block_targets, k + 1, base, year,
                    IF Strip(block[k]) \in ALEX_REF_LABELS
                    THEN ref_branch(block, block_targets, k, base, year, st)
                    ELSE IF Strip(block[k]) \in ALEX_VIDEO_LABELS
                    THEN video_branch(block, block_targets, k, base, st)
                    ELSE st)

\* the end (exclusive, 1-based) of the block that starts at block_starts[p]
block_end(ls, starts, p) ==
    IF p + 1 <= Len(starts) THEN starts[p + 1] ELSE Len(ls) + 1

\* the locals after the scan of the block at block_starts[p]
block_scan(ls, targets, starts, p, year) ==
    LET Scan(start, stop) ==
            scan_block(SubSeq(ls, start, stop - 1),
                       SubSeq(targets, start, stop - 1),
                       1, start - 1, year, block_locals)
    IN  Scan(starts[p], block_end(ls, starts, p))

\* the key set whether or not a date was resolved
with_prefix_always(entry, date_prefix) ==
    [f \in DOMAIN entry \cup {"filename_prefix_override"} |->
        IF f = "filename_prefix_override" THEN date_prefix \o <<"_">>
        ELSE entry[f]]

\* entry["filename_prefix_override"] = f"{date_prefix}_" when date_prefix
with_prefix_override(entry, date_prefix) ==
    IF date_prefix # <<>>
    THEN [f \in DOMAIN entry \cup {"filename_prefix_override"} |->
             IF f = "filename_prefix_override" THEN date_prefix \o <<"_">>
             ELSE entry[f]]
    ELSE entry

\* the entry extract_post_entries_from_blocks appends for scanned locals st
block_entry(st) ==
    LET Entry(title, tags) ==
            with_prefix_override(
                [filename_title |->
                     build_filename_title_from_title_line(st.video_title),
                 header_title |-> title,
                 header_url |-> st.video_url,
                 header_url_target |-> st.video_url_target,
                 video_url |-> st.video_url,
                 video_url_target |-> st.video_url_target,
                 video_title |-> title,
                 video_desc_en |-> st.video_desc_en,
                 video_desc_zh |-> st.video_desc_zh,
                 ref_url |-> st.ref_url,
                 ref_url_target |-> st.ref_url_target,
                 ref_title |-> st.ref_title,
                 hashtags_en |-> tags[1],
                 hashtags_zh |-> tags[2]],
                st.date_prefix)
    IN  Entry(_clean_title_for_display(st.video_title),
              build_hashtags_from_title_line(st.video_title))

block_reads(st, start) ==
    [marker |-> start,
     video_title |-> st.r.video_title,
     video_url |-> st.r.video_url,
     ref_url |-> st.r.ref_url,
     ref_title |-> st.r.ref_title,
     date |-> st.r.date,
     video_desc_en |-> st.r.video_desc_en,
     video_desc_zh |-> st.r.video_desc_zh]

\* ------------------------------------------------------------------------
\* Renderer: the destination of a hyperlink placeholder
\* ------------------------------------------------------------------------

\* generate_docs: hyperlink_targets of an entry
hyperlink_targets(entry) ==
    [HEADER_URL |-> entry.header_url_target,
     REF_URL |-> entry.ref_url_target,
     VIDEO_URL |-> entry.video_url_target]

\* replace_placeholders: target = hyperlink_targets.get(placeholder) or value
link_target(value, targets, placeholder) == OrElse(targets[placeholder], value)

\* ------------------------------------------------------------------------
\* Documents: the paragraphs iter_non_empty_paragraphs reads.  A paragraph is
\* its stripped, non-empty text and its hyperlink target; only a paragraph
\* whose text starts with "http" has a target other than None.
\* ------------------------------------------------------------------------

Para(text) == [text |-> text, target |-> None]
Link(text, target) == [text |-> text, target |-> target]

Url(c) == http \o <<":", "/", "/", c>>

\* "http://c" displayed in full, with no hyperlink run
PlainUrl(c) == Para(Url(c))

\* a hyperlink whose displayed text is elided: "http://c" + U+2026
ElidedUrl(c) == Link(Url(c) \o <<"U2026">>, Url(c) \o <<"/", "1">>)

Marker(n, who) == Para(<<n, ".", " ">> \o who)

Title1 == <<"U5927", "U611B", " ", "-", " ", "U4E2D", "U6587", "UFF1F", "s", "/", "r">>
Title2 == <<"A", "b">>
TitleBoth ==
    <<"P", " ", "-", " ", "T", " ", "(", "U5927", "U611B", " ", "-", " ",
      "U4E2D", "U6587", ")">>
TitleTags == <<"q", "(", "U4E2D", ")", "a", "/", "b", " ", "c", "/", "d">>
TitleOnlyTag == <<"a", "/", "b">>

SectionHeader == Para(<<"U7BC0", "U76EE", "6", "U5247">>)
StopLine == Para(<<"-", "-">>)
Paired == Para(PairedMarker)

\* the schedule of test_extract_post_titles_from_schedule, with a stop line
\* and a marker before the header, a marker after the stop line and elided
\* hyperlinks
ScheduleBase ==
    << StopLine,
       Marker("9", alex),
       SectionHeader,
       Marker("1", alex),
       Marker("2", <<"b", "o", "b">>),
       Para(Title1),
       Marker("3", <<"A", "l", "e", "x">>),
       Para(Title2),
       PlainUrl("v"),
       Paired,
       ElidedUrl("w"),
       PlainUrl("n"),
       Para(<<"N", "e", "w", "s">>),
       StopLine,
       Marker("4", alex),
       Para(<<"X">>) >>

RefLabel == Para(RefLabelText \o <<":">>)
VideoLabel == Para(VideoLabelText \o <<"UFF1A">>)

\* one block in the shape of test_blocks_date_prefix_and_multiline_ref
BlockBase ==
    << Para(<<"1">>),
       RefLabel,
       ElidedUrl("n"),
       Para(<<"1", "/", "2", "7">>),
       Para(<<"1", "3", "/", "4", "5">>),
       Para(<<"N", "e", "w", "s">>),
       VideoLabel,
       PlainUrl("v"),
       Para(TitleBoth),
       Para(TitleTags),
       Para(TitleOnlyTag),
       Para(<<"E", "n">>) >>

\* what may follow the first block: nothing, an index line alone, a block
\* with no reference, a block whose reference label has nothing under it, a
\* block with a reference dated with its own year
SecondBlocks ==
    { <<>>,
      << Para(<<"2">>) >>,
      << Para(<<"2">>), VideoLabel, ElidedUrl("w"), Para(Title1) >>,
      << Para(<<"2">>), RefLabel, VideoLabel, PlainUrl("v"), Para(Title2) >>,
      << Para(<<"2">>), RefLabel, PlainUrl("m"),
         Para(<<"2", "6", "/", "1", "/", "2", "3">>),
         VideoLabel, PlainUrl("v"), Para(Title2) >> }

\* the most paragraphs a document leaves out of its base
MaxOmitted == 3

\* base with at most n of its paragraphs left out
SubDocs(base, n) ==
    {[i \in 1..Cardinality(I) |-> base[Sorted(I)[i]]] :
        I \in {J \in SUBSET DOMAIN base : Len(base) - Cardinality(J) <= n}}

\* base cut off after any number of its paragraphs, the empty document included
Prefixes(base) == {SubSeq(base, 1, n) : n \in 0..Len(base)}

\* a schedule whose header is U+83E9 U+63D0 "7" U+5247 and whose title line
\* starts with the date "1/20"
BodhiHeader == Para(<<"U83E9", "U63D0", "7", "U5247">>)
BodhiTitle == <<"1", "/", "2", "0", "U9996", "U64AD", " ", "a">>
BodhiBase ==
    << BodhiHeader, Marker("1", alex), Para(BodhiTitle), PlainUrl("v"),
       StopLine >>

\* the schedule of test_bodhi_section_does_not_leak: a U+83E9 U+63D0 section
\* followed by a U+7BC0 U+76EE section
BodhiThenProgram ==
    << BodhiHeader, Marker("1", alex), Para(BodhiTitle), PlainUrl("v"),
       SectionHeader, Marker("1", alex), Para(Title2), PlainUrl("w"),
       Paired, PlainUrl("n"), Para(<<"N", "e", "w", "s">>), StopLine >>

ScheduleDocs ==
    SubDocs(ScheduleBase, MaxOmitted) \cup Prefixes(ScheduleBase)
        \cup Prefixes(BodhiBase) \cup Prefixes(BodhiThenProgram)

BlockDocs ==
    {a \o b : a \in SubDocs(BlockBase, MaxOmitted), b \in SecondBlocks}
        \cup Prefixes(BlockBase)

Years == {2025, 2026}

\* ------------------------------------------------------------------------
\* extract_post_entries / extract_post_entries_from_blocks, step by step
\* ------------------------------------------------------------------------

NoCall == /\ arg = <<>>
          /\ ret = <<>>
          /\ files = <<>>
          /\ output_paths = <<>>

InitCall(docs, calls) ==
    /\ \E doc \in docs :
          /\ lines = [i \in DOMAIN doc |-> doc[i].text]
          /\ url_targets = [i \in DOMAIN doc |-> doc[i].target]
    /\ call \in calls
    /\ default_year = 0
    /\ pc = "start"
    /\ idx = 1
    /\ in_program_section = FALSE
    /\ block_starts = <<>>
    /\ pos = 1
    /\ entries = <<>>
    /\ reads = <<>>
    /\ NoCall

\* extract_post_entries: the detector chooses the blocks extractor
DispatchBlocks ==
    /\ pc = "start"
    /\ call \in {"extract_post_entries", "generate_docs"}
    /\ _detect_schedule_format(lines) = "blocks"
    /\ pc' = "blocks"
    /\ default_year' \in Years
    /\ block_starts' = index_lines(lines)
    /\ UNCHANGED <<lines, url_targets, call, idx, in_program_section, pos,
                   entries, reads, arg, ret,
                   files, output_paths>>

\* extract_post_entries: the schedule loop starts
DispatchSchedule ==
    /\ pc = "start"
    /\ call \in {"extract_post_entries", "generate_docs"}
    /\ _detect_schedule_format(lines) # "blocks"
    /\ pc' = "schedule"
    /\ UNCHANGED <<lines, url_targets, default_year, call, idx,
                   in_program_section, block_starts, pos, entries, reads,
                   arg, ret,
                   files, output_paths>>

\* extract_post_entries_from_blocks called directly
CallBlocks ==
    /\ pc = "start"
    /\ call = "extract_post_entries_from_blocks"
    /\ pc' = "blocks"
    /\ default_year' \in Years
    /\ block_starts' = index_lines(lines)
    /\ UNCHANGED <<lines, url_targets, call, idx, in_program_section, pos,
                   entries, reads, arg, ret,
                   files, output_paths>>

ScheduleStep(next_pc, next_idx, next_in, next_entries, next_reads) ==
    /\ pc' = next_pc
    /\ idx' = next_idx
    /\ in_program_section' = next_in
    /\ entries' = next_entries
    /\ reads' = next_reads
    /\ UNCHANGED <<lines, url_targets, default_year, call, block_starts, pos,
                   arg, ret,
                   files, output_paths>>

AtLine == pc = "schedule" /\ idx <= Len(lines)

\* if not in_program_section: ...; continue
BeforeSection ==
    /\ AtLine
    /\ ~in_program_section
    /\ ScheduleStep("schedule", idx + 1, PROGRAM_SECTION_RE_match(lines[idx]),
                    entries, reads)

\* if STOP_SECTION_RE.match(line): break
StopSection ==
    /\ AtLine
    /\ in_program_section
    /\ STOP_SECTION_RE_match(lines[idx])
    /\ ScheduleStep("done", idx, in_program_section, entries, reads)

InSection ==
    /\ AtLine
    /\ in_program_section
    /\ ~STOP_SECTION_RE_match(lines[idx])

\* if not match: continue
SkipLine ==
    /\ InSection
    /\ PERSON_LINE_RE_match(lines[idx]) = None
    /\ ScheduleStep("schedule", idx + 1, in_program_section, entries, reads)

\* if idx + 1 >= len(lines): continue
MarkerAtEnd ==
    /\ InSection
    /\ PERSON_LINE_RE_match(lines[idx]) # None
    /\ idx + 1 > Len(lines)
    /\ ScheduleStep("schedule", idx + 1, in_program_section, entries, reads)

\* a marker of another presenter: nothing is appended
MarkerOther ==
    /\ InSection
    /\ PERSON_LINE_RE_match(lines[idx]) # None
    /\ idx + 1 <= Len(lines)
    /\ person_of(lines[idx]) # alex
    /\ ScheduleStep("schedule", idx + 1, in_program_section, entries, reads)

\* if person == "alex": entries.append({...})
MarkerAlex ==
    /\ InSection
    /\ PERSON_LINE_RE_match(lines[idx]) # None
    /\ idx + 1 <= Len(lines)
    /\ person_of(lines[idx]) = alex
    /\ ScheduleStep("schedule", idx + 1, in_program_section,
                    Append(entries, schedule_entry(lines, url_targets, idx)),
                    Append(reads, schedule_reads(lines, url_targets, idx)))

\* the for loop ran out of lines and the call starts over
ScheduleEnd_restart ==
    /\ pc = "schedule"
    /\ idx > Len(lines)
    /\ ScheduleStep("start", 1, FALSE, <<>>, <<>>)

\* the for loop ran out of lines: return entries
ScheduleEnd ==
    /\ pc = "schedule"
    /\ idx > Len(lines)
    /\ ScheduleStep("done", idx, in_program_section, entries, reads)

BlocksStep(next_pc, next_pos, next_entries, next_reads) ==
    /\ pc' = next_pc
    /\ pos' = next_pos
    /\ entries' = next_entries
    /\ reads' = next_reads
    /\ UNCHANGED <<lines, url_targets, default_year, call, idx,
                   in_program_section, block_starts, arg, ret,
                   files, output_paths>>

AtBlock == pc = "blocks" /\ pos <= Len(block_starts)

\* if end_idx - start_idx <= 1: continue
BlockTooShort ==
    /\ AtBlock
    /\ block_end(lines, block_starts, pos) - block_starts[pos] <= 1
    /\ BlocksStep("blocks", pos + 1, entries, reads)

\* if not video_title: continue
BlockDropped ==
    /\ AtBlock
    /\ block_end(lines, block_starts, pos) - block_starts[pos] > 1
    /\ \E st \in {block_scan(lines, url_targets, block_starts, pos,
                             default_year)} :
          /\ st.video_title = <<>>
          /\ BlocksStep("blocks", pos + 1, entries, reads)

\* entries.append(entry)
BlockEmitted ==
    /\ AtBlock
    /\ block_end(lines, block_starts, pos) - block_starts[pos] > 1
    /\ \E st \in {block_scan(lines, url_targets, block_starts, pos,
                             default_year)} :
          /\ st.video_title # <<>>
          /\ BlocksStep("blocks", pos + 1,
                        Append(entries, block_entry(st)),
                        Append(reads, block_reads(st, block_starts[pos])))

\* the loop over block_starts ended: return entries
BlocksEnd ==
    /\ pc = "blocks"
    /\ pos > Len(block_starts)
    /\ BlocksStep("done", pos, entries, reads)

ScheduleNext ==
    \/ DispatchSchedule
    \/ BeforeSection
    \/ StopSection
    \/ SkipLine
    \/ MarkerAtEnd
    \/ MarkerOther
    \/ MarkerAlex
    \/ ScheduleEnd

BlocksNext ==
    \/ DispatchBlocks
    \/ CallBlocks
    \/ BlockTooShort
    \/ BlockDropped
    \/ BlockEmitted
    \/ BlocksEnd

\* extract_post_entries on the documents of the schedule dialect
InitSchedule == InitCall(ScheduleDocs, {"extract_post_entries"})
SpecSchedule == InitSchedule /\ [][ScheduleNext]_vars

\* both entry points on the documents of the blocks dialect
InitAnyBlocks ==
    InitCall(BlockDocs, {"extract_post_entries", "extract_post_entries_from_blocks"})

\* the calls among them that run the blocks extractor
InitBlocks ==
    /\ InitAnyBlocks
    /\ call = "extract_post_entries" => _detect_schedule_format(lines) = "blocks"
SpecBlocks == InitBlocks /\ [][BlocksNext]_vars

\* both dialects, whichever extractor the detector chooses
Init == InitSchedule \/ InitAnyBlocks
Next == ScheduleNext \/ BlocksNext
Spec == Init /\ [][Next]_vars

\* where a call is: its program counter and the positions of the two loops
control == <<pc, idx, pos>>

\* a step that moves the call on: to another part of the function, to the
\* next line or to the next block
Advance ==
    /\ pc # "done"
    /\ pc' \in {"start", "schedule", "blocks", "done"}
    /\ idx' \in 1..(Len(lines) + 1)
    /\ pos' \in 1..(Len(block_starts) + 1)
    /\ control' # control

\* The interpreter runs a call until it returns: while the call has not
\* returned it is moved on again.
FairSpec == Spec /\ WF_control(Advance)

\* ------------------------------------------------------------------------
\* Calls of the pure functions: arg is the argument, ret collects the values
\* returned
\* ------------------------------------------------------------------------

\* the strings over alphabet of at most n characters
RECURSIVE Strings(_, _)
Strings(alphabet, n) ==
    LET Longer(shorter) ==
            shorter \cup {Append(t, c) : t \in shorter, c \in alphabet}
    IN  IF n = 0 THEN {<<>>} ELSE Longer(Strings(alphabet, n - 1))

InitPure(calls) ==
    /\ lines = <<>>
    /\ url_targets = <<>>
    /\ default_year = 0
    /\ call \in calls
    /\ pc = "call"
    /\ idx = 1
    /\ in_program_section = FALSE
    /\ block_starts = <<>>
    /\ pos = 1
    /\ entries = <<>>
    /\ reads = <<>>
    /\ ret = <<>>
    /\ files = <<>>
    /\ output_paths = <<>>

Return(next_pc, value) ==
    /\ pc' = next_pc
    /\ ret' = Append(ret, value)
    /\ UNCHANGED <<lines, url_targets, default_year, call, idx,
                   in_program_section, block_starts, pos, entries, reads, arg,
                   files, output_paths>>

\* _parse_date_prefix(text, default_year) ---------------------------------

DateAlphabet == {"0", "1", "3", "/", " "}

\* longest date text, before a two-digit year is put in front of it
MaxDateLen == 4

YearFields == {<<"2", "6", "/">>, <<"0", "0", "/">>}

DateTexts ==
    Strings(DateAlphabet, MaxDateLen)
    \cup {yy \o t : yy \in YearFields, t \in Strings(DateAlphabet, MaxDateLen)}
    \cup {<<"2", "6", "/", "1", "/", "2", "3">>, <<"1", "/", "2", "0">>,
          <<"1", "3", "/", "4", "5">>, <<"1", "2", "/", "3", "1">>}

\* default_year: None, or a year
DateYears == {<<>>, <<2025>>, <<2026>>, <<2100>>}

InitDate ==
    /\ InitPure({"_parse_date_prefix"})
    /\ arg \in DateTexts \X DateYears

CallParseDatePrefix ==
    /\ pc = "call"
    /\ call = "_parse_date_prefix"
    /\ Return("done", _parse_date_prefix(arg[1], arg[2]))

SpecDate == InitDate /\ [][CallParseDatePrefix]_vars

\* normalize_title(title_line), _split_program_title(title_line) -----------

TitleAlphabet == {"a", " ", "-", "/"}

\* longest title string
MaxTitleLen == 6

TitleStrings == Strings(TitleAlphabet, MaxTitleLen)

\* titles with a hyphen between Latin and CJK words
SplitAlphabet == {"a", " ", "-", "U4E2D"}

\* longest of them
MaxSplitLen == 5

InitTitle ==
    \/ /\ InitPure({"normalize_title", "_split_program_title"})
       /\ arg \in TitleStrings
    \/ /\ InitPure({"_split_program_title"})
       /\ arg \in Strings(SplitAlphabet, MaxSplitLen)

CallNormalizeTitle ==
    /\ pc = "call"
    /\ call = "normalize_title"
    /\ Return("again", normalize_title(arg))

\* normalize_title applied to its own result
CallNormalizeTitleAgain ==
    /\ pc = "again"
    /\ call = "normalize_title"
    /\ Return("done", normalize_title(ret[1]))

CallSplitProgramTitle ==
    /\ pc = "call"
    /\ call = "_split_program_title"
    /\ Return("done", _split_program_title(arg))

TitleNext ==
    \/ CallNormalizeTitle
    \/ CallNormalizeTitleAgain
    \/ CallSplitProgramTitle

SpecTitle == InitTitle /\ [][TitleNext]_vars

\* _build_hashtags(program, title, pascal_case),
\* build_hashtags_from_title_line(title_line) ------------------------------

TagAlphabet == {"a", " ", "#", "'", "U4E2D"}

\* longest program or title string
MaxTagLen == 2

TagStrings == Strings(TagAlphabet, MaxTagLen)

\* the pieces title lines are made of
LineTokens ==
    {<<"a">>, <<" ">>, SpacedDash, <<"/">>, <<"(">>, <<")">>, <<"#">>,
     <<"U4E2D">>}

\* most pieces of a title line
MaxLineTokens == 4

RECURSIVE TokenLines(_)
TokenLines(n) ==
    LET Longer(shorter) ==
            shorter \cup {t \o token : t \in shorter, token \in LineTokens}
    IN  IF n = 0 THEN {<<>>} ELSE Longer(TokenLines(n - 1))

\* "Learn Something New Every Day - Every Step Matters (...)" with the
\* Chinese program and title, the title in two words, in the parentheses
TitleLearn ==
    <<"L", "e", "a", "r", "n", " ", "S", "o", "m", "e", "t", "h", "i", "n", "g",
      " ", "N", "e", "w", " ", "E", "v", "e", "r", "y", " ", "D", "a", "y", " ",
      "-", " ", "E", "v", "e", "r", "y", " ", "S", "t", "e", "p", " ", "M", "a",
      "t", "t", "e", "r", "s", " ", "(", "U65E5", "U65E5", "U6709", "U65B0",
      "U77E5", " ", "-", " ", "U8D70", "U8D8A", "U591A", " ", "U6D3B", "U8D8A",
      "U4E45", ")">>

TitleLines ==
    TokenLines(MaxLineTokens)
    \cup {Title1, Title2, TitleBoth, TitleTags, TitleOnlyTag, TitleLearn}

\* the characters of the texts one tag is made from
WordAlphabet == {"a", "B", "1", " ", "'", "-", "U4E2D"}

\* longest text one tag is made from
MaxWordsLen == 4

InitTags ==
    \/ /\ InitPure({"_normalize_hashtag"})
       /\ arg \in Strings(WordAlphabet, MaxWordsLen) \X BOOLEAN
    \/ /\ InitPure({"_build_hashtags"})
       /\ arg \in TagStrings \X TagStrings \X BOOLEAN
    \/ /\ InitPure({"build_hashtags_from_title_line"})
       /\ arg \in TitleLines

CallBuildHashtags ==
    /\ pc = "call"
    /\ call = "_build_hashtags"
    /\ Return("done", _build_hashtags(arg[1], arg[2], arg[3]))

CallBuildHashtagsFromTitleLine ==
    /\ pc = "call"
    /\ call = "build_hashtags_from_title_line"
    /\ Return("done", build_hashtags_from_title_line(arg))

CallNormalizeHashtag ==
    /\ pc = "call"
    /\ call = "_normalize_hashtag"
    /\ Return("done", _normalize_hashtag(arg[1], arg[2]))

TagsNext ==
    \/ CallNormalizeHashtag
    \/ CallBuildHashtags
    \/ CallBuildHashtagsFromTitleLine

SpecTags == InitTags /\ [][TagsNext]_vars

\* _detect_schedule_format(lines) -----------------------------------------

\* the lines the detector is given: a section header, a header after a
\* blank, the labels with either colon, bare and padded, a label with text
\* after it, and a line of neither kind
DetectLines ==
    {SectionHeader.text, <<" ">> \o SectionHeader.text,
     RefLabel.text, <<" ">> \o RefLabelText \o <<"UFF1A", " ">>,
     VideoLabel.text, <<"\t">> \o VideoLabelText \o <<":">>,
     RefLabel.text \o <<"a">>, <<"a">>}

\* most lines of a sequence given to the detector
MaxDetectLines == 3

RECURSIVE LineSeqs(_)
LineSeqs(n) ==
    LET Longer(shorter) ==
            shorter \cup {Append(t, line) : t \in shorter, line \in DetectLines}
    IN  IF n = 0 THEN {<<>>} ELSE Longer(LineSeqs(n - 1))

InitDetect ==
    /\ InitPure({"_detect_schedule_format"})
    /\ arg \in LineSeqs(MaxDetectLines)

CallDetectScheduleFormat ==
    /\ pc = "call"
    /\ call = "_detect_schedule_format"
    /\ Return("done", _detect_schedule_format(arg))

SpecDetect == InitDetect /\ [][CallDetectScheduleFormat]_vars

\* _clean_filename_component(text),
\* build_filename_title_from_title_line(title_line) ------------------------

ComponentAlphabet == {"a", " ", "/", "|", "?"}

\* longest title component
MaxComponentLen == 4

\* the shoulder/leg components of an exercise title
ShoulderSlashLeg == <<"U80A9", "/", "U817F">>
ShoulderBarLeg == <<"U80A9", "|", "U817F">>

ComponentStrings ==
    Strings(ComponentAlphabet, MaxComponentLen)
    \cup {ShoulderSlashLeg, ShoulderBarLeg}

\* the pieces the title lines of file names are made of
FilenameTokens ==
    {<<"a">>, <<" ">>, SpacedDash, <<"/">>, <<"|">>, <<"?">>, <<"(">>, <<")">>,
     <<"U4E2D">>}

\* the concatenations of at most n of the tokens
RECURSIVE Concats(_, _)
Concats(tokens, n) ==
    LET Longer(shorter) ==
            shorter \cup {t \o token : t \in shorter, token \in tokens}
    IN  IF n = 0 THEN {<<>>} ELSE Longer(Concats(tokens, n - 1))

\* "a/ - a|a?": both halves hold a character the cleaning takes out
TitleSlashBar == <<"a", "/", " ", "-", " ", "a", "|", "a", "?">>

\* "Program - Test Title (...)" with the program and the title of the
\* Chinese original in the parentheses
TitleProgramTest ==
    <<"P", "r", "o", "g", "r", "a", "m", " ", "-", " ", "T", "e", "s", "t", " ",
      "T", "i", "t", "l", "e", " ", "(", "U5927", "U611B", "U91AB", "U751F",
      "U9928", " ", "-", " ", "U4E2D", "U6587", "U6A19", "U984C", ")">>

\* two groups with CJK characters and text between them
TitleTwoGroups ==
    <<"(", "U5927", "U611B", ")", "a", "(", "U4E2D", "U6587", ")">>

\* the pieces of a title line with several parenthetical groups
GroupTokens ==
    {<<"(", "U4E2D", ")">>, <<"(", "U5927", ")">>, <<"(", "a", ")">>,
     <<"a">>, <<" ">>, SpacedDash}

\* the most pieces of such a line
MaxGroupTokens == 4

GroupLines == Concats(GroupTokens, MaxGroupTokens)

FilenameLines ==
    Concats(FilenameTokens, MaxLineTokens)
    \cup {Title1, Title2, TitleBoth, TitleTags, TitleOnlyTag, TitleSlashBar,
          TitleProgramTest, TitleTwoGroups}
    \cup GroupLines

InitFilename ==
    \/ /\ InitPure({"_clean_filename_component"})
       /\ arg \in ComponentStrings
    \/ /\ InitPure({"build_filename_title_from_title_line"})
       /\ arg \in FilenameLines
    \/ /\ InitPure({"build_hashtags_from_title_line"})
       /\ arg \in GroupLines

CallCleanFilenameComponent ==
    /\ pc = "call"
    /\ call = "_clean_filename_component"
    /\ Return("done", _clean_filename_component(arg))

CallBuildFilenameTitle ==
    /\ pc = "call"
    /\ call = "build_filename_title_from_title_line"
    /\ Return("done", build_filename_title_from_title_line(arg))

FilenameNext ==
    \/ CallCleanFilenameComponent
    \/ CallBuildFilenameTitle
    \/ CallBuildHashtagsFromTitleLine

SpecFilename == InitFilename /\ [][FilenameNext]_vars

\* ------------------------------------------------------------------------
\* generate_docs: one document per entry, written into output_dir
\* ------------------------------------------------------------------------

PostLabel == <<"U5C0F", "U7DE8", "U6587">>
Docx == <<".", "d", "o", "c", "x">>

entry_prefix_of_caller(entry, filename_prefix) == filename_prefix

\* entry.get("filename_prefix_override", filename_prefix)
entry_prefix(entry, filename_prefix) ==
    IF "filename_prefix_override" \in DOMAIN entry
    THEN entry.filename_prefix_override
    ELSE filename_prefix

\* f"{entry_prefix}{entry['filename_title']}<PostLabel>{filename_suffix}.docx"
filename_of(entry, filename_prefix, filename_suffix) ==
    entry_prefix(entry, filename_prefix) \o entry.filename_title
        \o PostLabel \o filename_suffix \o Docx

\* Path.suffix: from the last "." of the name on, unless that "." is the
\* first or the last character of the name
PathSuffix(name) ==
    LET Dots == {i \in DOMAIN name : name[i] = "."}
    IN  IF Dots # {} /\ 1 < Max(Dots) /\ Max(Dots) < Len(name)
        THEN Tail_from(name, Max(Dots))
        ELSE <<>>

\* Path.stem: the name without its suffix
PathStem(name) == SubSeq(name, 1, Len(name) - Len(PathSuffix(name)))

\* base.with_name(f"{stem}_{counter}{suffix}")
candidate(base, counter) ==
    PathStem(base) \o <<"_">> \o ToStr(counter) \o PathSuffix(base)

\* the while loop of make_unique_path, from counter on
RECURSIVE first_free(_, _, _)
first_free(existing, base, counter) ==
    IF candidate(base, counter) \notin existing
    THEN candidate(base, counter)
    ELSE first_free(existing, base, counter + 1)

make_unique_path_overwriting(existing, base) == base

\* make_unique_path(base) in a directory that holds the names in existing
make_unique_path(existing, base) ==
    IF base \notin existing THEN base ELSE first_free(existing, base, 2)

\* doc.save(str(output_path)): the file is created or replaced; it is
\* stamped with a number no file of the directory was stamped with before
save(dir, output_path) ==
    [n \in DOMAIN dir \cup {output_path} |->
        IF n = output_path THEN Cardinality(DOMAIN dir) + 1 ELSE dir[n]]

\* the --prefix and --suffix defaults of main, and empty ones
DefaultPrefix == <<"U65E5", "U671F", "U672A", "U5B9A", "_">>
DefaultSuffix == <<"_", "a", "l">>
GenerateArgs == {<<DefaultPrefix, DefaultSuffix>>, <<<<>>, <<>>>>}

\* two entries with the same title, and a marker that ends the document
ScheduleSameTitle ==
    << SectionHeader, Marker("1", alex), Para(Title2), PlainUrl("v"),
       Marker("2", alex), Para(Title2), Marker("3", alex) >>

\* a dated block, an index line alone and a block with no video title
BlocksDated ==
    BlockBase \o << Para(<<"2">>), Para(<<"3">>), RefLabel, PlainUrl("m") >>

GenerateDocuments == {<<>>, ScheduleBase, ScheduleSameTitle, BlocksDated}

\* files a directory may hold before the first run: outputs of earlier runs
\* for Title2, the first of them deleted since
LeftOver ==
    LET base == DefaultPrefix \o Title2 \o PostLabel \o DefaultSuffix \o Docx
    IN  {candidate(base, 2), candidate(base, 3)}

\* the most files in the directory when another run starts
MaxFiles == 4

InitGenerate ==
    /\ \E doc \in GenerateDocuments :
          /\ lines = [i \in DOMAIN doc |-> doc[i].text]
          /\ url_targets = [i \in DOMAIN doc |-> doc[i].target]
    /\ call = "generate_docs"
    /\ arg \in GenerateArgs
    /\ default_year = 0
    /\ pc = "start"
    /\ idx = 1
    /\ in_program_section = FALSE
    /\ block_starts = <<>>
    /\ pos = 1
    /\ entries = <<>>
    /\ reads = <<>>
    /\ ret = <<>>
    /\ files \in {[n \in S |-> 0] : S \in SUBSET LeftOver}
    /\ output_paths = <<>>

\* one iteration of "for entry in entries"
WriteDoc ==
    /\ pc = "done"
    /\ call = "generate_docs"
    /\ Len(output_paths) < Len(entries)
    /\ \E output_path \in
           {make_unique_path(
                DOMAIN files,
                filename_of(entries[Len(output_paths) + 1], arg[1], arg[2]))} :
          /\ files' = save(files, output_path)
          /\ output_paths' = Append(output_paths, output_path)
    /\ UNCHANGED <<lines, url_targets, default_year, call, pc, idx,
                   in_program_section, block_starts, pos, entries, reads,
                   arg, ret>>

\* return output_paths
GenerateReturn ==
    /\ pc = "done"
    /\ call = "generate_docs"
    /\ Len(output_paths) = Len(entries)
    /\ pc' = "returned"
    /\ UNCHANGED <<lines, url_targets, default_year, call, idx,
                   in_program_section, block_starts, pos, entries, reads,
                   arg, ret, files, output_paths>>

\* generate_docs is run again, into the same directory
GenerateAgain ==
    /\ pc = "returned"
    /\ Cardinality(DOMAIN files) < MaxFiles
    /\ \E doc \in GenerateDocuments :
          /\ lines' = [i \in DOMAIN doc |-> doc[i].text]
          /\ url_targets' = [i \in DOMAIN doc |-> doc[i].target]
    /\ arg' \in GenerateArgs
    /\ default_year' = 0
    /\ pc' = "start"
    /\ idx' = 1
    /\ in_program_section' = FALSE
    /\ block_starts' = <<>>
    /\ pos' = 1
    /\ entries' = <<>>
    /\ reads' = <<>>
    /\ output_paths' = <<>>
    /\ UNCHANGED <<call, ret, files>>

GenerateNext ==
    \/ DispatchSchedule
    \/ BeforeSection
    \/ StopSection
    \/ SkipLine
    \/ MarkerAtEnd
    \/ MarkerOther
    \/ MarkerAlex
    \/ ScheduleEnd
    \/ DispatchBlocks
    \/ BlockTooShort
    \/ BlockDropped
    \/ BlockEmitted
    \/ BlocksEnd
    \/ WriteDoc
    \/ GenerateReturn
    \/ GenerateAgain

SpecGenerate == InitGenerate /\ [][GenerateNext]_vars

\* ------------------------------------------------------------------------
\* Extraction calls one after another in one process
\* ------------------------------------------------------------------------

\* a schedule with its header and without it, a schedule with a stop line,
\* and a document of the blocks dialect
RepeatDocuments ==
    { ScheduleBase, ScheduleSameTitle,
      SubSeq(ScheduleSameTitle, 2, Len(ScheduleSameTitle)), BlocksDated }

InitRepeat ==
    InitCall(RepeatDocuments,
             {"extract_post_entries", "extract_post_entries_from_blocks"})

\* what a finished call was given and what it returned
finished_call ==
    [call |-> call, lines |-> lines, url_targets |-> url_targets,
     default_year |-> default_year, entries |-> entries]

\* a call that would find in_program_section as the call before left it
CallAgain_keeping_section ==
    /\ pc = "done"
    /\ ret' \in {ret, <<finished_call>>}
    /\ \E doc \in RepeatDocuments :
          /\ lines' = [i \in DOMAIN doc |-> doc[i].text]
          /\ url_targets' = [i \in DOMAIN doc |-> doc[i].target]
    /\ call' \in {"extract_post_entries", "extract_post_entries_from_blocks"}
    /\ default_year' = 0
    /\ pc' = "start"
    /\ idx' = 1
    /\ block_starts' = <<>>
    /\ pos' = 1
    /\ entries' = <<>>
    /\ reads' = <<>>
    /\ UNCHANGED <<in_program_section, arg, files, output_paths>>

\* the call has returned and the process makes another: entries,
\* in_program_section, default_year and the loop variables are locals of the
\* new call, and the module has no variable a call assigns.  ret keeps one
\* of the finished calls, any of them.
CallAgain ==
    /\ pc = "done"
    /\ ret' \in {ret, <<finished_call>>}
    /\ \E doc \in RepeatDocuments :
          /\ lines' = [i \in DOMAIN doc |-> doc[i].text]
          /\ url_targets' = [i \in DOMAIN doc |-> doc[i].target]
    /\ call' \in {"extract_post_entries", "extract_post_entries_from_blocks"}
    /\ default_year' = 0
    /\ pc' = "start"
    /\ idx' = 1
    /\ in_program_section' = FALSE
    /\ block_starts' = <<>>
    /\ pos' = 1
    /\ entries' = <<>>
    /\ reads' = <<>>
    /\ UNCHANGED <<arg, files, output_paths>>

RepeatNext == Next \/ CallAgain

SpecRepeat == InitRepeat /\ [][RepeatNext]_vars

\* ------------------------------------------------------------------------
\* Properties of the schedule extractor
\* ------------------------------------------------------------------------

\* C1: on the schedule path exactly one entry is emitted for each person
\* marker that lies after the first section header and before the first stop
\* line that follows it, whose token is "alex" in any letter case and that
\* is not the last line; no other marker yields an entry, and the entries
\* are in the order of their markers.
C1_OneEntryPerAlexMarker ==
    pc = "done" =>
        LET IsAlexMarker(token) ==
                /\ token # None
                /\ Len(token) = Len(alex)
                /\ \A k \in DOMAIN alex :
                      token[k] \in {alex[k], UpperChar(alex[k])}
            First(S) == IF S = {} THEN Len(lines) + 1 ELSE Min(S)
            Accepted(header, stop) ==
                {i \in (header + 1)..(stop - 1) :
                    /\ i < Len(lines)
                    /\ IsAlexMarker(PERSON_LINE_RE_match(lines[i]))}
            Until(header) ==
                Accepted(header,
                         First({i \in (header + 1)..Len(lines) :
                                   STOP_SECTION_RE_match(lines[i])}))
            Markers(accepted) ==
                /\ Len(entries) = Cardinality(accepted)
                /\ Len(reads) = Len(entries)
                /\ [e \in DOMAIN reads |-> reads[e].marker] = Sorted(accepted)
                /\ \A e \in DOMAIN entries :
                      entries[e].video_title =
                          _clean_title_for_display(lines[reads[e].marker + 1])
        IN  Markers(Until(First({i \in DOMAIN lines :
                                    PROGRAM_SECTION_RE_match(lines[i])})))

\* a finished run that emitted the entries of "1. alex" and "3. Alex", passed
\* a marker of "bob" and stopped before the marker "4. alex"
C1_Witness ==
    /\ pc = "done"
    /\ Len(entries) = 2
    /\ lines[reads[1].marker] = Marker("1", alex).text
    /\ lines[reads[2].marker] = Marker("3", <<"A", "l", "e", "x">>).text
    /\ \E i \in reads[1].marker..reads[2].marker :
          lines[i] = Marker("2", <<"b", "o", "b">>).text
    /\ idx <= Len(lines)
    /\ \E i \in (idx + 1)..Len(lines) : lines[i] = Marker("4", alex).text
    /\ \E i \in 1..reads[1].marker : lines[i] = Marker("9", alex).text

\* C2: once a stop line is met inside the section no further line is used:
\* no field of an emitted entry (title, video URL, reference URL, reference
\* title) is read from the first stop line after the header or from a line
\* after it, and none from a line before the first section header.
C2_NoLineFromStopOn ==
    pc = "done" =>
        LET First(S) == IF S = {} THEN Len(lines) + 1 ELSE Min(S)
            Used(r) ==
                ({r.video_title, r.video_url, r.ref_url} \cup r.ref_title)
                \ {0}
            Within(header, stop) ==
                \A e \in DOMAIN reads :
                    \A k \in Used(reads[e]) : header < k /\ k < stop
            Until(header) ==
                Within(header,
                       First({i \in (header + 1)..Len(lines) :
                                 STOP_SECTION_RE_match(lines[i])}))
        IN  Until(First({i \in DOMAIN lines :
                            PROGRAM_SECTION_RE_match(lines[i])}))

\* ------------------------------------------------------------------------
\* Properties of the date prefix resolver
\* ------------------------------------------------------------------------

\* C3: _parse_date_prefix returns the six digits YYMMDD, each field padded
\* to two digits, when the trimmed text is exactly YY/M/D (YY two digits,
\* taken literally) or exactly M/D with a default year (YY the year mod 100),
\* M and D of one or two digits, the month in 1..12 and the day in 1..31;
\* in every other case it returns None.  ("26/1/23", 2025) gives "260123",
\* ("1/20", 2026) gives "260120", ("13/45", 2026) gives None.
C3_DatePrefix ==
    pc = "done" =>
        LET Two(n) ==
                <<<<"0","1","2","3","4","5","6","7","8","9">>[(n \div 10) + 1],
                  <<"0","1","2","3","4","5","6","7","8","9">>[(n % 10) + 1]>>
            Numerals(n) ==
                {Two(n)} \cup (IF n < 10 THEN {Tail(Two(n))} ELSE {})
            MonthDay(t) ==
                UNION {{Two(m) \o Two(d) :
                           m \in {m \in 1..12 : SubSeq(t, 1, i - 1) \in Numerals(m)},
                           d \in {d \in 1..31 : Tail_from(t, i + 1) \in Numerals(d)}} :
                       i \in {i \in DOMAIN t : t[i] = "/"}}
            YearMonthDay(t) ==
                IF Len(t) >= 3 /\ t[1] \in Digits /\ t[2] \in Digits /\ t[3] = "/"
                THEN {<<t[1], t[2]>> \o md : md \in MonthDay(Tail_from(t, 4))}
                ELSE {}
            Dates(t, year) ==
                YearMonthDay(t)
                \cup (IF year = <<>> THEN {}
                      ELSE {Two(year[1] % 100) \o md : md \in MonthDay(t)})
            Returns(value, dates) ==
                IF dates = {} THEN value = None ELSE dates = {value}
        IN  /\ Returns(ret[1], Dates(Strip(arg[1]), arg[2]))
            /\ arg = <<<<"2", "6", "/", "1", "/", "2", "3">>, <<2025>>>>
                  => ret[1] = <<"2", "6", "0", "1", "2", "3">>
            /\ arg = <<<<"1", "/", "2", "0">>, <<2026>>>>
                  => ret[1] = <<"2", "6", "0", "1", "2", "0">>
            /\ arg = <<<<"1", "3", "/", "4", "5">>, <<2026>>>> => ret[1] = None

\* "1/20" was parsed with the default year 2026
C3_Witness ==
    /\ pc = "done"
    /\ arg = <<<<"1", "/", "2", "0">>, <<2026>>>>
    /\ ret = <<<<"2", "6", "0", "1", "2", "0">>>>

\* ------------------------------------------------------------------------
\* Properties of the blocks extractor
\* ------------------------------------------------------------------------

\* C4: an entry of the blocks extractor has the key filename_prefix_override
\* exactly when, for a reference label of its block, the line two after the
\* label lies in the block before the next video label and parses as a date;
\* the value is then the six digits of the date (of the last such label)
\* followed by "_", seven characters, "250127_" for the date line "1/27" and
\* the year 2025; with no date resolved the entry has no such key.
C4_PrefixOverride ==
    \A e \in DOMAIN entries :
        LET IsVideoLabel(j) == Strip(lines[j]) \in ALEX_VIDEO_LABELS
            DateAt(j) == _parse_date_prefix(lines[j + 2], <<default_year>>)
            Override(dated) ==
                IF dated = {}
                THEN "filename_prefix_override" \notin DOMAIN entries[e]
                ELSE /\ "filename_prefix_override" \in DOMAIN entries[e]
                     /\ entries[e].filename_prefix_override
                            = DateAt(Max(dated)) \o <<"_">>
                     /\ Len(entries[e].filename_prefix_override) = 7
                     /\ \A k \in 1..6 :
                           entries[e].filename_prefix_override[k] \in Digits
                     /\ ( /\ lines[Max(dated) + 2] = <<"1", "/", "2", "7">>
                          /\ default_year = 2025 )
                        => entries[e].filename_prefix_override
                               = <<"2", "5", "0", "1", "2", "7", "_">>
            Block(start, end) ==
                Override({j \in start..(end - 3) :
                             /\ Strip(lines[j]) \in ALEX_REF_LABELS
                             /\ ~IsVideoLabel(j + 1)
                             /\ ~IsVideoLabel(j + 2)
                             /\ DateAt(j) # None})
            From(start, later) ==
                Block(start, IF later = {} THEN Len(lines) + 1 ELSE Min(later))
        IN  From(reads[e].marker,
                 {i \in (reads[e].marker + 1)..Len(lines) :
                     BLOCK_INDEX_RE_match(Strip(lines[i]))})

\* two entries: the first from a block dated "1/27" in 2025, the second from
\* a block with no reference
C4_Witness ==
    /\ pc = "done"
    /\ default_year = 2025
    /\ Len(entries) = 2
    /\ "filename_prefix_override" \in DOMAIN entries[1]
    /\ entries[1].filename_prefix_override = <<"2", "5", "0", "1", "2", "7", "_">>
    /\ lines[reads[1].date] = <<"1", "/", "2", "7">>
    /\ "filename_prefix_override" \notin DOMAIN entries[2]

\* C8: for an entry made from a video title line with an English literal
\* title and a CJK parenthetical title, build_hashtags_from_title_line of the
\* stored video_title is the stored (hashtags_en, hashtags_zh).
C8_HashtagsOfStoredTitle ==
    \A e \in DOMAIN entries :
        LET Both(literal, zh) ==
                zh # None /\ literal # <<>> /\ ~_is_cjk(literal)
            English_and_CJK(title_line) ==
                Both(_strip_parenthetical(title_line),
                     cjk_parenthetical(PAREN_TITLE_RE_findall(title_line)))
        IN  English_and_CJK(lines[reads[e].video_title])
                => build_hashtags_from_title_line(entries[e].video_title)
                       = <<entries[e].hashtags_en, entries[e].hashtags_zh>>

\* C9: the blocks extractor emits no entry whose filename_title is empty.
C9_FilenameTitleNotEmpty ==
    \A e \in DOMAIN entries : entries[e].filename_title # <<>>

\* ------------------------------------------------------------------------
\* Properties of the hashtag builder and the title normalizer
\* ------------------------------------------------------------------------

\* C5: a string returned by _build_hashtags, and each of the two strings
\* returned by build_hashtags_from_title_line, is zero, one or two tags
\* joined by one space; a tag is "#" followed by at least one character,
\* none of them "#" or whitespace, and two adjacent tags differ.
C5_HashtagsWellFormed ==
    pc = "done" =>
        LET IsTag(tag) ==
                /\ Len(tag) >= 2
                /\ tag[1] = "#"
                /\ \A k \in 2..Len(tag) : tag[k] # "#" /\ ~IsSpace(tag[k])
            Tags(t, spaces) ==
                \/ spaces = {} /\ IsTag(t)
                \/ \E i \in spaces :
                      /\ spaces = {i}
                      /\ IsTag(SubSeq(t, 1, i - 1))
                      /\ IsTag(Tail_from(t, i + 1))
                      /\ SubSeq(t, 1, i - 1) # Tail_from(t, i + 1)
            WellFormed(t) ==
                t = <<>> \/ Tags(t, {i \in DOMAIN t : IsSpace(t[i])})
        IN  /\ call = "_build_hashtags" => WellFormed(ret[1])
            /\ call = "build_hashtags_from_title_line" =>
                   WellFormed(ret[1][1]) /\ WellFormed(ret[1][2])

\* program and title normalise to the same tag, which is returned once
C5_Witness ==
    /\ pc = "done"
    /\ call = "_build_hashtags"
    /\ arg = <<<<"a">>, <<"a", " ">>, TRUE>>
    /\ ret = <<<<"#", "A">>>>

\* C6: normalize_title(normalize_title(t)) = normalize_title(t).
C6_NormalizeTitleIdempotent ==
    (pc = "done" /\ call = "normalize_title") => ret[2] = ret[1]

\* C7, as stated: for every t that contains " - ",
\* program + " - " + episode = t for (program, episode) =
\* _split_program_title(t).
C7_RejoinGivesTitle ==
    (pc = "done" /\ call = "_split_program_title"
                 /\ Contains(arg, SpacedDash))
        => ret[1][1] \o SpacedDash \o ret[1][2] = arg

\* C7, amended: the rejoined parts give t back for every t that contains
\* " - ", has no whitespace at either end, has no translator tag at its end
\* and has no whitespace next to its first " - ".
C7_RejoinGivesTidyTitle ==
    (pc = "done" /\ call = "_split_program_title"
                 /\ Contains(arg, SpacedDash))
        => LET Tidy(at) ==
                   /\ ~IsSpace(arg[1])
                   /\ ~IsSpace(arg[Len(arg)])
                   /\ ~\E p \in DOMAIN arg : TagShape(Strip(Tail_from(arg, p)))
                   /\ ~IsSpace(arg[at - 1])
                   /\ ~IsSpace(arg[at + 3])
           IN  Tidy(Find(arg, SpacedDash))
                   => ret[1][1] \o SpacedDash \o ret[1][2] = arg

\* "-a - a" was split at its " - ", not at its first hyphen
C7_Witness ==
    /\ pc = "done"
    /\ call = "_split_program_title"
    /\ arg = <<"-", "a", " ", "-", " ", "a">>
    /\ ret = << <<<<"-", "a">>, <<"a">>>> >>

\* ------------------------------------------------------------------------
\* Properties of the link targets
\* ------------------------------------------------------------------------

\* C10, as stated: in an entry of either extractor, when the URL line of the
\* video (of the reference) has no recorded hyperlink target,
\* video_url_target and header_url_target (ref_url_target) equal the
\* displayed video_url (ref_url).
C10_TargetIsDisplayedUrl ==
    \A e \in DOMAIN entries :
        /\ (reads[e].video_url # 0 /\ url_targets[reads[e].video_url] = None)
               => /\ entries[e].video_url_target = entries[e].video_url
                  /\ entries[e].header_url_target = entries[e].video_url
        /\ (reads[e].ref_url # 0 /\ url_targets[reads[e].ref_url] = None)
               => entries[e].ref_url_target = entries[e].ref_url

\* C10, amended: when the URL line has no recorded hyperlink target the
\* target fields of the entry are empty, and the destination the renderer
\* takes for the placeholder is the displayed URL.
C10_TargetEmptyThenDisplayedUrl ==
    \A e \in DOMAIN entries :
        /\ (reads[e].video_url # 0 /\ url_targets[reads[e].video_url] = None)
               => /\ entries[e].video_url_target = <<>>
                  /\ entries[e].header_url_target = <<>>
                  /\ link_target(entries[e].video_url,
                                 hyperlink_targets(entries[e]), "VIDEO_URL")
                         = entries[e].video_url
                  /\ link_target(entries[e].header_url,
                                 hyperlink_targets(entries[e]), "HEADER_URL")
                         = entries[e].video_url
        /\ (reads[e].ref_url # 0 /\ url_targets[reads[e].ref_url] = None)
               => /\ entries[e].ref_url_target = <<>>
                  /\ link_target(entries[e].ref_url,
                                 hyperlink_targets(entries[e]), "REF_URL")
                         = entries[e].ref_url

\* an entry whose video URL has no recorded target and whose reference URL
\* has one
C10_Witness ==
    \E e \in DOMAIN entries :
        /\ reads[e].video_url # 0
        /\ url_targets[reads[e].video_url] = None
        /\ entries[e].video_url = Url("v")
        /\ entries[e].video_url_target = <<>>
        /\ reads[e].ref_url # 0
        /\ url_targets[reads[e].ref_url] # None
        /\ entries[e].ref_url_target = url_targets[reads[e].ref_url]

\* C11: in an entry of either extractor, when the URL line of the video (of
\* the reference) carries a hyperlink target, video_url (ref_url) is the
\* displayed text of that line, unchanged, and video_url_target and
\* header_url_target (ref_url_target) are the hyperlink's destination.
C11_DisplayedTextAndDestination ==
    \A e \in DOMAIN entries :
        /\ (reads[e].video_url # 0 /\ url_targets[reads[e].video_url] # None)
               => /\ entries[e].video_url = lines[reads[e].video_url]
                  /\ entries[e].header_url = lines[reads[e].video_url]
                  /\ entries[e].video_url_target
                         = url_targets[reads[e].video_url]
                  /\ entries[e].header_url_target
                         = url_targets[reads[e].video_url]
        /\ (reads[e].ref_url # 0 /\ url_targets[reads[e].ref_url] # None)
               => /\ entries[e].ref_url = lines[reads[e].ref_url]
                  /\ entries[e].ref_url_target
                         = url_targets[reads[e].ref_url]

\* a finished extraction with an entry whose reference URL is displayed
\* truncated, ending in an ellipsis, and links to the full address
C11_Witness ==
    /\ pc = "done"
    /\ \E e \in DOMAIN entries :
           /\ reads[e].ref_url # 0
           /\ lines[reads[e].ref_url] = ElidedUrl("n").text
           /\ url_targets[reads[e].ref_url] = ElidedUrl("n").target
           /\ entries[e].ref_url = Url("n") \o <<"U2026">>
           /\ entries[e].ref_url_target = Url("n") \o <<"/", "1">>
           /\ entries[e].ref_url_target # entries[e].ref_url

\* ------------------------------------------------------------------------
\* Termination
\* ------------------------------------------------------------------------

\* every line a field of an entry was read from, and the position of either
\* loop, is inside the document (0: the field was read from no line)
C12_IndicesInside ==
    /\ idx \in 1..(Len(lines) + 1)
    /\ pos \in 1..(Len(block_starts) + 1)
    /\ Len(url_targets) = Len(lines)
    /\ \A e \in DOMAIN reads :
          /\ {reads[e].video_title, reads[e].video_url, reads[e].ref_url,
               reads[e].date, reads[e].video_desc_en, reads[e].video_desc_zh}
                 \subseteq 0..Len(lines)
          /\ reads[e].ref_title \subseteq 1..Len(lines)

\* C12: on every document of either dialect, cut off or with paragraphs
\* missing, the empty document included, the extraction reaches its return
\* with a list of entries, and no step reads a line or a target at an index
\* outside the document.
C12_ExtractionTerminates ==
    /\ <>(pc = "done")
    /\ [](C12_IndicesInside /\ Len(entries) = Len(reads))

\* the extraction of a document that ends in an "alex" marker inside the
\* program section has returned, with no entry for that marker
C12_Witness ==
    /\ pc = "done"
    /\ call = "extract_post_entries"
    /\ lines # <<>>
    /\ person_of(lines[Len(lines)]) = alex
    /\ in_program_section
    /\ idx = Len(lines) + 1
    /\ \A e \in DOMAIN reads : reads[e].marker # Len(lines)

\* ------------------------------------------------------------------------
\* Properties of the format detector
\* ------------------------------------------------------------------------

\* C13: _detect_schedule_format returns "blocks" exactly when no line
\* matches the section-header pattern and the sequence has both a line
\* that, trimmed, is a reference label and a line that, trimmed, is a video
\* label; in every other case it returns "schedule".
C13_BlocksExactlyWhenBothLabelsAndNoHeader ==
    (pc = "done" /\ call = "_detect_schedule_format") =>
        LET Trimmed == {Strip(arg[i]) : i \in DOMAIN arg}
            no_header ==
                \A i \in DOMAIN arg :
                    ~(/\ Len(arg[i]) >= 3
                      /\ SubSeq(arg[i], 1, 2) = <<"U7BC0", "U76EE">>
                      /\ \E j \in 3..Len(arg[i]) : arg[i][j] = "U5247")
            both_labels ==
                /\ Trimmed \cap {RefLabelText \o <<":">>,
                                 RefLabelText \o <<"UFF1A">>} # {}
                /\ Trimmed \cap {VideoLabelText \o <<":">>,
                                 VideoLabelText \o <<"UFF1A">>} # {}
        IN  /\ ret[1] \in {"blocks", "schedule"}
            /\ ret[1] = "blocks" <=> (no_header /\ both_labels)

\* the detector has answered "schedule" for a sequence that holds a section
\* header together with both labels
C13_Witness ==
    /\ pc = "done"
    /\ call = "_detect_schedule_format"
    /\ arg = <<RefLabel.text, SectionHeader.text, VideoLabel.text>>
    /\ ret = <<"schedule">>

\* ------------------------------------------------------------------------
\* Properties of the file name title
\* ------------------------------------------------------------------------

\* C14: build_filename_title_from_title_line returns a string with no "/"
\* and no "|", with no whitespace at either end, with no two whitespace
\* characters in a row, and not ending in one of the trailing punctuation
\* characters.  With program and episode the cleaned halves of the title
\* source, it is program, one space, episode when both are non-empty and
\* differ, and otherwise program when that is non-empty, else episode.
C14_FilenameTitleShape ==
    (pc = "done" /\ call = "build_filename_title_from_title_line") =>
        LET name == ret[1]
            Shape(program, episode) ==
                IF program # <<>> /\ episode # <<>> /\ program # episode
                THEN name = program \o <<" ">> \o episode
                ELSE IF program # <<>> THEN name = program
                ELSE name = episode
            Halves(source) ==
                IF Contains(source, SpacedDash) THEN SplitSpacedDash(source)
                ELSE _split_program_title(source)
            Cleaned(halves) ==
                Shape(_clean_filename_component(halves[1]),
                      _clean_filename_component(halves[2]))
        IN  /\ \A i \in DOMAIN name : name[i] \notin {"/", "|"}
            /\ name # <<>> =>
                   /\ name[1] \notin Whitespace
                   /\ name[Len(name)] \notin Whitespace
                   /\ name[Len(name)] \notin
                          {"U3002", "UFF0E", ".", "UFF1F", "?", "UFF01", "!",
                           "UFF1A", ":", ";", "UFF1B", ",", "UFF0C"}
            /\ \A i \in 1..(Len(name) - 1) :
                   ~(name[i] \in Whitespace /\ name[i + 1] \in Whitespace)
            /\ Cleaned(Halves(OrElse(
                   cjk_parenthetical(PAREN_TITLE_RE_findall(arg)),
                   _clean_title_for_display(arg))))

\* a title line with "/", "|" and a trailing "?" whose halves both survive
\* the cleaning: "a/ - a|a?" gives "a a a"
C14_Witness ==
    /\ pc = "done"
    /\ call = "build_filename_title_from_title_line"
    /\ arg = TitleSlashBar
    /\ ret = << <<"a", " ", "a", " ", "a">> >>

\* C15, as stated: cleaning a title component turns every "/" and every "|"
\* left after the tag removal into a space, then collapses the whitespace
\* and trims the trailing punctuation; U+80A9 "/" U+817F and U+80A9 "|"
\* U+817F both clean to U+80A9 " " U+817F.
C15_SlashAndBarBecomeSpaces ==
    (pc = "done" /\ call = "_clean_filename_component") =>
        LET Spaced(t) ==
                [i \in DOMAIN t |-> IF t[i] \in {"/", "|"} THEN " " ELSE t[i]]
        IN  /\ ret[1] = RStripChars(
                            Strip(CollapseWhitespace(
                                Spaced(Strip(TRANSLATOR_TAG_RE_sub(arg))))),
                            FilenamePunct)
            /\ arg \in {ShoulderSlashLeg, ShoulderBarLeg}
                   => ret[1] = <<"U80A9", " ", "U817F">>

\* C15, amended: cleaning a title component deletes every "/" left after
\* the tag removal, joining what it separated, and turns every "|" into a
\* space, then collapses the whitespace and trims the trailing
\* punctuation; U+80A9 "/" U+817F cleans to U+80A9 U+817F and U+80A9 "|"
\* U+817F to U+80A9 " " U+817F.
C15_SlashDeletedBarBecomesSpace ==
    (pc = "done" /\ call = "_clean_filename_component") =>
        LET Spaced(t) == [i \in DOMAIN t |-> IF t[i] = "|" THEN " " ELSE t[i]]
            Unslashed(t) == SelectSeq(t, LAMBDA c : c # "/")
        IN  /\ ret[1] = RStripChars(
                            Strip(CollapseWhitespace(
                                Spaced(Unslashed(
                                    Strip(TRANSLATOR_TAG_RE_sub(arg)))))),
                            FilenamePunct)
            /\ arg = ShoulderSlashLeg => ret[1] = <<"U80A9", "U817F">>
            /\ arg = ShoulderBarLeg => ret[1] = <<"U80A9", " ", "U817F">>

\* the component U+80A9 "/" U+817F has been cleaned
C15_Witness ==
    /\ pc = "done"
    /\ call = "_clean_filename_component"
    /\ arg = ShoulderSlashLeg
    /\ ret = << <<"U80A9", "U817F">> >>

\* C16: when the last parenthetical group of a title line holds a CJK
\* character, build_filename_title_from_title_line returns what it returns
\* for that group alone, with everything outside the parentheses left out:
\* the title made of the cleaned program and episode of the group's
\* contents.  "Program - Test Title (...)" with the program U+5927 U+611B
\* U+91AB U+751F U+9928 and the title U+4E2D U+6587 U+6A19 U+984C in the
\* group gives the two joined by a space.
C16_LastCjkGroupIsTheSource ==
    (pc = "done" /\ call = "build_filename_title_from_title_line") =>
        LET FromGroup(inner) ==
                /\ ret[1] = build_filename_title_from_title_line(
                                <<"(">> \o inner \o <<")">>)
                /\ \A i \in DOMAIN ret[1] :
                       \/ ret[1][i] = " "
                       \/ \E j \in DOMAIN inner : inner[j] = ret[1][i]
            Groups(groups) ==
                (/\ groups # <<>>
                 /\ \E j \in DOMAIN groups[Len(groups)] :
                        groups[Len(groups)][j] \in CJKChars)
                    => FromGroup(groups[Len(groups)])
        IN  /\ Groups(PAREN_TITLE_RE_findall(arg))
            /\ arg = TitleProgramTest =>
                   ret[1] = <<"U5927", "U611B", "U91AB", "U751F", "U9928", " ",
                              "U4E2D", "U6587", "U6A19", "U984C">>

\* the title of a line with two CJK groups has been taken from the last
C16_Witness ==
    /\ pc = "done"
    /\ call = "build_filename_title_from_title_line"
    /\ arg = TitleTwoGroups
    /\ ret = << <<"U4E2D", "U6587">> >>

\* ------------------------------------------------------------------------
\* Properties of the hashtags of a title line
\* ------------------------------------------------------------------------

\* C17: build_hashtags_from_title_line returns hashtags_en, the PascalCase
\* tags of the program and episode of the tag-stripped title with every
\* parenthetical group taken out, and hashtags_zh, the tags, in unchanged
\* case, of the program and episode of the contents of the last group that
\* holds a CJK character, or of the whole tag-stripped title when no group
\* does.  "Learn Something New Every Day - Every Step Matters (...)" gives
\* "#LearnSomethingNewEveryDay #EveryStepMatters" and the two Chinese tags.
C17_HashtagsOfTitleLine ==
    (pc = "done" /\ call = "build_hashtags_from_title_line") =>
        LET Built(halves, pascal_case) ==
                _build_hashtags(halves[1], halves[2], pascal_case)
            Zh(display, groups, cjk) ==
                Built(_split_program_title(
                          IF cjk = {} THEN display
                          ELSE Strip(groups[Max(cjk)])), FALSE)
            Of(display, groups) ==
                /\ ret[1][1] =
                       Built(_split_program_title(
                                 Strip(PAREN_TITLE_RE_remove(display))), TRUE)
                /\ ret[1][2] =
                       Zh(display, groups,
                          {i \in DOMAIN groups :
                              \E j \in DOMAIN groups[i] :
                                  groups[i][j] \in CJKChars})
            OfDisplay(display) == Of(display, PAREN_TITLE_RE_findall(display))
        IN  /\ OfDisplay(Strip(TRANSLATOR_TAG_RE_sub(arg)))
            /\ arg = TitleLearn =>
                   ret[1] =
                       << <<"#", "L", "e", "a", "r", "n", "S", "o", "m", "e",
                            "t", "h", "i", "n", "g", "N", "e", "w", "E", "v",
                            "e", "r", "y", "D", "a", "y", " ", "#", "E", "v",
                            "e", "r", "y", "S", "t", "e", "p", "M", "a", "t",
                            "t", "e", "r", "s">>,
                          <<"#", "U65E5", "U65E5", "U6709", "U65B0", "U77E5",
                            " ", "#", "U8D70", "U8D8A", "U591A", "U6D3B",
                            "U8D8A", "U4E45">> >>

\* the hashtags of the "Learn Something New Every Day" line have been built
C17_Witness ==
    /\ pc = "done"
    /\ call = "build_hashtags_from_title_line"
    /\ arg = TitleLearn
    /\ Len(ret) = 1
    /\ ret[1][1] # ret[1][2]
    /\ Head(ret[1][2]) = "#"

\* C18: _normalize_hashtag first deletes the quote characters.  When a CJK
\* character is left it returns the alphanumeric and CJK characters in
\* their order, whatever the casing mode.  Otherwise it returns the
\* alphanumeric characters in their order, every other character only
\* ending a word; in PascalCase mode the first character of each word is
\* upper-cased, and no other character is changed in either mode.
C18_NormalizedHashtag ==
    (pc = "done" /\ call = "_normalize_hashtag") =>
        LET IsQuote(c) ==
                c \in {"\"", "'", "U201C", "U201D", "U2018", "U2019"}
            Letter(s, i) ==
                IF arg[2] /\ (i = 1 \/ ~IsAlnum(s[i - 1]))
                THEN UpperChar(s[i]) ELSE s[i]
            Words(s, kept) ==
                [k \in 1..Cardinality(kept) |-> Letter(s, Sorted(kept)[k])]
            Tag(s) ==
                IF \E i \in DOMAIN s : s[i] \in CJKChars
                THEN SelectSeq(s, LAMBDA c : IsAlnum(c) \/ c \in CJKChars)
                ELSE Words(s, {i \in DOMAIN s : IsAlnum(s[i])})
        IN  ret[1] = Tag(SelectSeq(arg[1], LAMBDA c : ~IsQuote(c)))

\* the PascalCase tag of "aB a" has been built: "AB" and "A" joined
C18_Witness ==
    /\ pc = "done"
    /\ call = "_normalize_hashtag"
    /\ arg = << <<"a", "B", " ", "a">>, TRUE >>
    /\ ret = << <<"A", "B", "A">> >>

\* ------------------------------------------------------------------------
\* Properties of the reference of a block
\* ------------------------------------------------------------------------

\* C19: in the entry of a block with one reference label, ref_url is the
\* line right after the label, and ref_title is the lines from the one
\* after that URL line up to the video label that follows (or to the end of
\* the block), in their order and joined by newlines, the first of them
\* left out exactly when it parses as a date: then it gives the file name
\* prefix; otherwise it is the first line of ref_title and the entry has no
\* prefix override.
C19_ReferenceOfBlock ==
    \A e \in DOMAIN entries :
        LET NewlineJoined(ps) ==
                Join([i \in 1..Cardinality(ps) |-> lines[Sorted(ps)[i]]],
                     <<"\n">>)
            Title(label, until, date) ==
                /\ entries[e].ref_title =
                       NewlineJoined(IF date # None
                                     THEN (label + 3)..(until - 1)
                                     ELSE (label + 2)..(until - 1))
                /\ date # None <=>
                       "filename_prefix_override" \in DOMAIN entries[e]
                /\ date # None =>
                       entries[e].filename_prefix_override = date \o <<"_">>
                /\ (date = None /\ label + 2 < until) =>
                       /\ Len(entries[e].ref_title) >= Len(lines[label + 2])
                       /\ SubSeq(entries[e].ref_title, 1,
                                 Len(lines[label + 2])) = lines[label + 2]
            Reference(label, end, until) ==
                /\ label + 1 < end => entries[e].ref_url = lines[label + 1]
                /\ Title(label, until,
                         IF label + 2 < until
                         THEN _parse_date_prefix(lines[label + 2],
                                                 <<default_year>>)
                         ELSE None)
            Labelled(label, end, videos) ==
                Reference(label, end, IF videos = {} THEN end ELSE Min(videos))
            Block(start, end, labels) ==
                Cardinality(labels) = 1 =>
                    Labelled(Min(labels), end,
                             {j \in (Min(labels) + 1)..(end - 1) :
                                 Strip(lines[j]) \in ALEX_VIDEO_LABELS})
            From(start, end) ==
                Block(start, end,
                      {j \in start..(end - 1) :
                          Strip(lines[j]) \in ALEX_REF_LABELS})
            First(start, later) ==
                From(start, IF later = {} THEN Len(lines) + 1 ELSE Min(later))
        IN  First(reads[e].marker,
                  {i \in (reads[e].marker + 1)..Len(lines) :
                      BLOCK_INDEX_RE_match(Strip(lines[i]))})

\* an entry whose block has "13/45", which is no date, in the date position
\* and two title lines: ref_title is "13/45" and "News", one per line, and
\* there is no prefix override
C19_Witness ==
    /\ pc = "done"
    /\ \E e \in DOMAIN entries :
           /\ entries[e].ref_url = ElidedUrl("n").text
           /\ entries[e].ref_title =
                  <<"1", "3", "/", "4", "5", "\n", "N", "e", "w", "s">>
           /\ "filename_prefix_override" \notin DOMAIN entries[e]

\* ------------------------------------------------------------------------
\* Properties of the sections of a schedule
\* ------------------------------------------------------------------------

\* C20: in a schedule whose section header is U+83E9 U+63D0 N U+5247, the
\* "alex" marker yields one entry: its video_title is U+4EBA U+9593 U+83E9
\* U+63D0 " (" followed by the title line and ")", its ref_url is its
\* video_url, its ref_title is empty, and its filename_prefix_override is
\* the YYMMDD_ prefix of the M/D date the title line starts with, in the
\* current year.
C20_BodhiSectionEntry ==
    ( /\ pc = "done"
      /\ Len(lines) >= 4
      /\ lines[1] = BodhiHeader.text
      /\ person_of(lines[2]) = alex
      /\ lines[3] = BodhiTitle )
        => /\ Len(entries) = 1
           /\ entries[1].video_title =
                  <<"U4EBA", "U9593", "U83E9", "U63D0", " ", "(">>
                      \o lines[3] \o <<")">>
           /\ entries[1].video_url = lines[4]
           /\ entries[1].ref_url = entries[1].video_url
           /\ entries[1].ref_title = <<>>
           /\ "filename_prefix_override" \in DOMAIN entries[1]
           /\ \E year \in Years :
                  entries[1].filename_prefix_override =
                      Format02d(year % 100) \o <<"0", "1", "2", "0", "_">>
\* C21: in a schedule where a U+83E9 U+63D0 N U+5247 section with an "alex"
\* marker is followed by a U+7BC0 U+76EE N U+5247 section with an "alex"
\* marker, both markers yield an entry, in document order; the entry of the
\* first section carries a true reference_only flag and the entry of the
\* second section carries none.
C21_BothSectionsInOrder ==
    ( /\ pc = "done"
      /\ Len(lines) >= 8
      /\ lines[1] = BodhiHeader.text
      /\ person_of(lines[2]) = alex
      /\ PROGRAM_SECTION_RE_match(lines[5])
      /\ person_of(lines[6]) = alex
      /\ lines[7] = Title2 )
        => /\ Len(entries) = 2
           /\ entries[1].video_url = lines[4]
           /\ entries[2].video_title = normalize_title(lines[7])
           /\ entries[2].video_url = lines[8]
           /\ "reference_only" \in DOMAIN entries[1]
           /\ entries[1].reference_only = TRUE
           /\ "reference_only" \notin DOMAIN entries[2]
\* ------------------------------------------------------------------------
\* Properties of generate_docs
\* ------------------------------------------------------------------------

\* C22: generate_docs writes one document per entry, in entry order: the k-th
\* path it returns is a file of the directory, and its name is prefix +
\* filename_title + U+5C0F U+7DE8 U+6587 + suffix + ".docx", with or without a
\* "_N" counter before ".docx", where prefix is the entry's
\* filename_prefix_override if the entry has one and the caller's
\* filename_prefix otherwise; when the call returns there are as many paths
\* as entries.
C22_OneNamedDocumentPerEntry ==
    call = "generate_docs" =>
        /\ Len(output_paths) <= Len(entries)
        /\ pc = "returned" => Len(output_paths) = Len(entries)
        /\ \A k \in DOMAIN output_paths :
              LET Named(stem) ==
                      \/ output_paths[k] = stem \o Docx
                      \/ \E n \in 2..(Cardinality(DOMAIN files) + 1) :
                             output_paths[k] =
                                 stem \o <<"_">> \o ToStr(n) \o Docx
              IN  /\ output_paths[k] \in DOMAIN files
                  /\ Named((IF "filename_prefix_override" \in DOMAIN entries[k]
                            THEN entries[k].filename_prefix_override
                            ELSE arg[1])
                           \o entries[k].filename_title
                           \o <<"U5C0F", "U7DE8", "U6587">> \o arg[2])

\* a run that has returned the path of a dated block, named with the date
\* and not with the caller's prefix
C22_Witness ==
    /\ call = "generate_docs"
    /\ pc = "returned"
    /\ arg[1] = DefaultPrefix
    /\ Len(entries) = 1
    /\ "filename_prefix_override" \in DOMAIN entries[1]
    /\ entries[1].filename_prefix_override = <<"2", "5", "0", "1", "2", "7", "_">>
    /\ Len(output_paths) = 1
    /\ output_paths[1] =
           <<"2", "5", "0", "1", "2", "7", "_">> \o entries[1].filename_title
               \o PostLabel \o DefaultSuffix \o Docx

\* C29: make_unique_path returns the base path when no file is there, and
\* otherwise the path with "_N" appended to the stem for the smallest N >= 2
\* at which no file is there; no step of any sequence of generate_docs runs
\* into one directory replaces a file of the directory, and the paths one
\* run has returned are pairwise distinct.
C29_UniquePathsNeverOverwrite ==
    [][ /\ \A f \in DOMAIN files :
              f \in DOMAIN files' /\ files'[f] = files[f]
        /\ ( /\ call = "generate_docs"
             /\ Len(output_paths') = Len(output_paths) + 1 )
            => LET base ==
                       filename_of(entries[Len(output_paths')], arg[1], arg[2])
                   path == output_paths'[Len(output_paths')]
                   Numbered(n) ==
                       SubSeq(base, 1, Len(base) - 5)
                           \o <<"_">> \o ToStr(n) \o <<".", "d", "o", "c", "x">>
               IN  /\ base \notin DOMAIN files => path = base
                   /\ base \in DOMAIN files =>
                          \E n \in 2..(Cardinality(DOMAIN files) + 2) :
                              /\ path = Numbered(n)
                              /\ Numbered(n) \notin DOMAIN files
                              /\ \A k \in 2..(n - 1) :
                                     Numbered(k) \in DOMAIN files
                   /\ \A i, j \in DOMAIN output_paths' :
                          i # j => output_paths'[i] # output_paths'[j]
      ]_vars

\* a run on two entries of the same title and prefix, into a directory where
\* the base path and the path numbered 3 exist: it has written the paths
\* numbered 2 and 4
C29_Witness ==
    /\ call = "generate_docs"
    /\ pc = "returned"
    /\ Len(entries) = 2
    /\ entries[1].filename_title = entries[2].filename_title
    /\ \E base \in {filename_of(entries[1], arg[1], arg[2])} :
          /\ base \in DOMAIN files
          /\ output_paths = <<candidate(base, 2), candidate(base, 4)>>
          /\ files[candidate(base, 3)] = 0
\* ------------------------------------------------------------------------
\* Properties of repeated calls
\* ------------------------------------------------------------------------

C24_ReferenceBeforeNextMarker ==
    pc = "done" =>
        \A e \in DOMAIN entries :
            LET Limit(S) == IF S = {} THEN Len(lines) + 1 ELSE Min(S)
                Before(i, limit) ==
                    /\ \A k \in ({reads[e].ref_url} \cup reads[e].ref_title)
                                    \ {0} : i < k /\ k < limit
                    /\ (\A j \in (i + 1)..(limit - 1) :
                            Strip(lines[j]) # PairedMarker)
                           => /\ entries[e].ref_url = <<>>
                              /\ entries[e].ref_title = <<>>
                              /\ entries[e].ref_url_target = <<>>
            IN  Before(reads[e].marker,
                       Limit({j \in (reads[e].marker + 1)..Len(lines) :
                                 \/ PERSON_LINE_RE_match(lines[j]) # None
                                 \/ STOP_SECTION_RE_match(lines[j])}))
\* the markers that yield an entry when every person marker inside the
\* section consumes the line after it: the scan goes on two lines further
RECURSIVE C25_ConsumingScan(_, _)
C25_ConsumingScan(i, in_section) ==
    IF i > Len(lines) THEN {}
    ELSE IF ~in_section
    THEN C25_ConsumingScan(i + 1, PROGRAM_SECTION_RE_match(lines[i]))
    ELSE IF STOP_SECTION_RE_match(lines[i]) THEN {}
    ELSE IF PERSON_LINE_RE_match(lines[i]) # None /\ i + 1 <= Len(lines)
    THEN (IF person_of(lines[i]) = alex THEN {i} ELSE {})
             \cup C25_ConsumingScan(i + 2, TRUE)
    ELSE C25_ConsumingScan(i + 1, TRUE)

\* C25: the title line of a person marker inside the section, "alex" or
\* not, is consumed by that marker: it is not read as a person marker or as
\* a stop line, so the entries are those of the markers found when the scan
\* passes over every title line.
C25_TitleLineIsConsumed ==
    pc = "done" =>
        {reads[e].marker : e \in DOMAIN reads} = C25_ConsumingScan(1, FALSE)
\* C26: in every entry of the schedule extractor, for a marker at line i,
\* video_url and header_url are equal; they are the line at i + 2 when that
\* line exists and starts with "http", and otherwise they and
\* video_url_target and header_url_target are all empty.
C26_UrlIsHttpLineOrEmpty ==
    \A e \in DOMAIN entries :
        LET Url2(i) ==
                IF i + 2 <= Len(lines)
                       /\ Len(lines[i + 2]) >= 4
                       /\ \A k \in 1..4 :
                              lines[i + 2][k] = <<"h", "t", "t", "p">>[k]
                THEN /\ entries[e].video_url = lines[i + 2]
                     /\ entries[e].header_url = lines[i + 2]
                ELSE /\ entries[e].video_url = <<>>
                     /\ entries[e].header_url = <<>>
                     /\ entries[e].video_url_target = <<>>
                     /\ entries[e].header_url_target = <<>>
        IN  Url2(reads[e].marker)

\* two entries: one whose marker is followed two lines on by a paragraph of
\* another kind, one with an "http" line there
C26_Witness ==
    /\ pc = "done"
    /\ Len(entries) = 2
    /\ reads[1].marker + 2 <= Len(lines)
    /\ entries[1].video_url = <<>>
    /\ reads[2].marker + 2 <= Len(lines)
    /\ entries[2].video_url = lines[reads[2].marker + 2]
    /\ entries[2].video_url # <<>>
\* ------------------------------------------------------------------------
\* Properties of a title line with several parenthetical groups
\* ------------------------------------------------------------------------

\* C27, as stated: when a title line has several parenthetical groups and
\* the last one holds no CJK character, the filename title and the Chinese
\* hashtags are those of the literal tag-stripped title, whatever the
\* earlier groups hold.
C27_NoPreferenceUnlessLastGroupCjk ==
    ( /\ pc = "done"
      /\ call \in {"build_filename_title_from_title_line",
                   "build_hashtags_from_title_line"} ) =>
        LET Filename(split) ==
                filename_title_of(_clean_filename_component(split[1]),
                                  _clean_filename_component(split[2]))
            Zh(split) == _build_hashtags(split[1], split[2], FALSE)
            From(source) ==
                IF call = "build_filename_title_from_title_line"
                THEN ret[1] = Filename(IF Contains(source, SpacedDash)
                                       THEN SplitSpacedDash(source)
                                       ELSE _split_program_title(source))
                ELSE ret[1][2] = Zh(_split_program_title(source))
            Groups(groups) ==
                ( /\ Len(groups) >= 2
                  /\ \A j \in DOMAIN groups[Len(groups)] :
                         groups[Len(groups)][j] \notin CJKChars )
                    => From(_clean_title_for_display(arg))
        IN  Groups(PAREN_TITLE_RE_findall(
                       IF call = "build_filename_title_from_title_line"
                       THEN arg ELSE _clean_title_for_display(arg)))

\* C27, amended: when a title line has several parenthetical groups and the
\* last one holds no CJK character, the filename title and the Chinese
\* hashtags are those of the contents of the last group that does hold a
\* CJK character; they are those of the literal tag-stripped title only
\* when no group holds one.
C27_LastGroupThatHoldsCjk ==
    ( /\ pc = "done"
      /\ call \in {"build_filename_title_from_title_line",
                   "build_hashtags_from_title_line"} ) =>
        LET Filename(split) ==
                filename_title_of(_clean_filename_component(split[1]),
                                  _clean_filename_component(split[2]))
            Zh(split) == _build_hashtags(split[1], split[2], FALSE)
            From(source) ==
                IF call = "build_filename_title_from_title_line"
                THEN ret[1] = Filename(IF Contains(source, SpacedDash)
                                       THEN SplitSpacedDash(source)
                                       ELSE _split_program_title(source))
                ELSE ret[1][2] = Zh(_split_program_title(source))
            Preferred(groups, cjk) ==
                ( /\ Len(groups) >= 2
                  /\ Len(groups) \notin cjk )
                    => IF cjk # {}
                       THEN From(Strip(groups[Max(cjk)]))
                       ELSE From(_clean_title_for_display(arg))
            Groups(groups) ==
                Preferred(groups,
                          {i \in DOMAIN groups :
                              \E j \in DOMAIN groups[i] :
                                  groups[i][j] \in CJKChars})
        IN  Groups(PAREN_TITLE_RE_findall(
                       IF call = "build_filename_title_from_title_line"
                       THEN arg ELSE _clean_title_for_display(arg)))

\* the Chinese hashtags of "(U+5927)(U+4E2D)(a)" have been taken from the
\* second group
C27_Witness ==
    /\ pc = "done"
    /\ call = "build_hashtags_from_title_line"
    /\ arg = <<"(", "U5927", ")", "(", "U4E2D", ")", "(", "a", ")">>
    /\ ret[1][2] = <<"#", "U4E2D">>
\* ------------------------------------------------------------------------
\* Properties of the unspaced hyphen
\* ------------------------------------------------------------------------

\* C28, as stated: for a tag-stripped title with no " - " and with a "-",
\* _split_program_title returns the two trimmed sides of the first "-"
\* exactly when at least one of them holds a space or a CJK character; in
\* every other case, and when the title has no "-", it returns the title
\* twice.
C28_SplitWhenASideHasSpaceOrCjk ==
    (pc = "done" /\ call = "_split_program_title") =>
        LET Wide(s) ==
                \E i \in DOMAIN s : s[i] = " " \/ s[i] \in CJKChars
            Sides(t, left, right) ==
                IF Wide(left) \/ Wide(right)
                THEN ret[1] = <<left, right>>
                ELSE ret[1] = <<t, t>>
            Split(t) ==
                ~Contains(t, <<" ", "-", " ">>) =>
                    IF Contains(t, <<"-">>)
                    THEN Sides(t,
                               Strip(SubSeq(t, 1, Find(t, <<"-">>) - 1)),
                               Strip(Tail_from(t, Find(t, <<"-">>) + 1)))
                    ELSE ret[1] = <<t, t>>
        IN  Split(_clean_title_for_display(arg))

\* C28, amended: for a tag-stripped title with no " - " and with a "-",
\* _split_program_title returns the two trimmed sides of the first "-"
\* exactly when neither of them is empty and at least one of them holds a
\* space or a CJK character; in every other case, and when the title has no
\* "-", it returns the title twice.
C28_SplitWhenNoSideIsEmpty ==
    (pc = "done" /\ call = "_split_program_title") =>
        LET Wide(s) ==
                \E i \in DOMAIN s : s[i] = " " \/ s[i] \in CJKChars
            Sides(t, left, right) ==
                IF left # <<>> /\ right # <<>> /\ (Wide(left) \/ Wide(right))
                THEN ret[1] = <<left, right>>
                ELSE ret[1] = <<t, t>>
            Split(t) ==
                ~Contains(t, <<" ", "-", " ">>) =>
                    IF Contains(t, <<"-">>)
                    THEN Sides(t,
                               Strip(SubSeq(t, 1, Find(t, <<"-">>) - 1)),
                               Strip(Tail_from(t, Find(t, <<"-">>) + 1)))
                    ELSE ret[1] = <<t, t>>
        IN  Split(_clean_title_for_display(arg))

\* U+4E2D "-a" has been split at its hyphen
C28_Witness ==
    /\ pc = "done"
    /\ call = "_split_program_title"
    /\ arg = <<"U4E2D", "-", "a">>
    /\ ret[1] = << <<"U4E2D">>, <<"a">> >>
\* ------------------------------------------------------------------------
\* Properties of the labels of a block
\* ------------------------------------------------------------------------

\* C30: in the blocks extractor no content field of an entry (ref_url,
\* ref_title, video_url, video_title, video_desc_en, video_desc_zh) is the
\* text of a reference-materials label or of a video-to-use label, and every
\* line a field was read from lies in the entry's own block, after its index
\* line and before the next index line.
C30_NoFieldIsALabel ==
    \A e \in DOMAIN entries :
        /\ \A f \in {"ref_url", "ref_title", "video_url", "video_title",
                     "video_desc_en", "video_desc_zh"} :
               entries[e][f] \notin ALEX_REF_LABELS \cup ALEX_VIDEO_LABELS
        /\ \A k \in ({reads[e].ref_url, reads[e].video_url,
                      reads[e].video_title, reads[e].video_desc_en,
                      reads[e].video_desc_zh} \cup reads[e].ref_title) \ {0} :
               /\ reads[e].marker < k
               /\ k <= Len(lines)
               /\ \A j \in (reads[e].marker + 1)..k :
                      ~BLOCK_INDEX_RE_match(Strip(lines[j]))

=============================================================================
